---- MODULE Spec2Model ----
(***************************************************************************)
(* durabledict: a dictionary that mirrors a durable key/value store in     *)
(* memory and invalidates the mirror with a shared version counter.        *)
(*                                                                         *)
(* The model covers DurableDict (durabledict/base.py) with its two         *)
(* backends RedisDict (durabledict/redis.py) and ModelDict                 *)
(* (durabledict/models.py), and the encoders of durabledict/encoding.py.   *)
(* Several mapping instances share one store; every store round trip of a  *)
(* method is one step, so that the instances interleave as processes do.   *)
(***************************************************************************)
EXTENDS Integers, Sequences, FiniteSets, TLC

(***************************************************************************)
(* Bounds of the model.                                                    *)
(***************************************************************************)
\* mutating calls (set, delete, pop, setdefault) made in one behaviour
MaxWrites == 2
\* times the version counter is evicted or deleted behind the dicts' back
MaxLoss == 1

\* the mapping instances (processes) and the keys they use
Inst == {1, 2}
Keys == {"k1"}

(***************************************************************************)
(* Values.  A Python value is a base object b wrapped by the encoders that *)
(* have been applied to it: w is the stack of encoder tags, innermost      *)
(* first.  A value with a non-empty w is the string an encoder produced.   *)
(* Base 0 is None, base 1 is a falsy object other than None ('' or 0),     *)
(* the other bases are truthy objects.                                     *)
(***************************************************************************)
V(n) == [b |-> n, w |-> <<>>]
None == V(0)
\* the failure of an encoder or decoder (EncodingError / DecodingError)
EncoderError == [b |-> -1, w |-> <<>>]

\* the base of an object neither pickle nor json can serialize
Unencodable == 9
\* the base of an object pickle can serialize and json cannot (a set)
JSONUnencodable == 8

\* Python truthiness of a value: None, '' and 0 are falsy, every encoded
\* string is non-empty and so truthy
Truthy(v) == Len(v.w) > 0 \/ v.b >= 2

\* the tag an encoder leaves on what it encodes
Tag(enc) == IF enc = "pickle" THEN "P" ELSE "J"

\* Encoder.encode: NoOpEncoding returns its argument, PickleEncoding and
\* JSONEncoding return a string that wraps it
Encode(enc, v) ==
    IF enc = "noop" THEN v
    ELSE IF v.b = Unencodable THEN EncoderError
    ELSE IF enc = "json" /\ v.b = JSONUnencodable /\ v.w = <<>> THEN EncoderError
    ELSE [v EXCEPT !.w = Append(@, Tag(enc))]

\* Encoder.decode: unwraps what the same encoder wrapped, DecodingError on
\* anything else (a string of another encoder, a value that is no string)
Decode(enc, v) ==
    IF enc = "noop" THEN v
    ELSE IF Len(v.w) > 0 /\ v.w[Len(v.w)] = Tag(enc)
         THEN [v EXCEPT !.w = SubSeq(@, 1, Len(@) - 1)]
         ELSE EncoderError

(***************************************************************************)
(* Dictionaries are functions from a set of keys.                          *)
(***************************************************************************)
EmptyDict == [k \in {} |-> None]
Put(d, k, v) == [x \in (DOMAIN d) \cup {k} |-> IF x = k THEN v ELSE d[x]]
Del(d, k) == [x \in (DOMAIN d) \ {k} |-> d[x]]
Has(d, k) == k \in DOMAIN d

\* the version counter is missing from the cache / from redis
Absent == -1

\* what callers pass as values: a truthy object, and the string that
\* pickling it gives
InputVals == {V(2), Encode("pickle", V(2))}
\* what callers pass as the default of pop: None (or nothing), a falsy
\* object, a truthy one
Defaults == {None, V(1), V(2)}
\* what callers pass as the default of setdefault
SetDefaults == {V(2)}

VARIABLES
    backend,        \* "redis" (RedisDict) or "model" (ModelDict)
    store,          \* the redis hash / the model's rows: key -> encoded value
    counter,        \* the last_updated key: an integer, or Absent
    dict,           \* dict[i]: self.__dict of instance i, the mirror
    last_synced,    \* last_synced[i]: self.last_synced
    autosync,       \* autosync[i]: self.autosync
    encoding,       \* encoding[i]: self.encoding
    old_encoding,   \* old_encoding[i]: self.old_encoding, or "none"
    pc,             \* pc[i]: where instance i is in its current call
    op,             \* op[i]: the call instance i is in
    result,         \* result[i]: the local `result` of pop and setdefault
    ret,            \* ret[i]: what the call of instance i returns or raises
    cache_expired_at, \* cache_expired_at[i]: the local of the sync in progress
    writes,         \* mutating calls made so far
    losses,         \* counter losses so far
    lastSet,        \* lastSet[k]: the set that settled key k
    keyspace,       \* keyspace[i]: self.keyspace of a RedisDict
    db,             \* the redis database: key name -> string or hash
    call,           \* a call of Encoder.encode / decode and what its codec does
    outcome,        \* what that call returns or raises
    _last_updated,  \* _last_updated[i]: self._last_updated of a ZookeeperDict
    child_watch     \* child_watch[i]: the Zookeeper watches of instance i

vars == <<backend, store, counter, dict, last_synced, autosync, encoding,
          old_encoding, pc, op, result, ret, cache_expired_at, writes, losses,
          lastSet, keyspace, db, call, outcome, _last_updated, child_watch>>

config == <<backend, autosync, encoding, old_encoding, keyspace, db, call,
            outcome, _last_updated, child_watch>>
ghost == <<writes, losses>>

(***************************************************************************)
(* DurableDict: encoding at the storage boundary.                          *)
(***************************************************************************)
\* DurableDict._encode: the primary encoder, the old one when the primary
\* raises EncodingError
_encode(i, v) ==
    IF Encode(encoding[i], v) # EncoderError THEN Encode(encoding[i], v)
    ELSE IF old_encoding[i] # "none" THEN Encode(old_encoding[i], v)
    ELSE EncoderError

\* DurableDict._decode: calls encode (sic) of the primary encoder, and encode
\* of the old one when that raises EncodingError
_decode(i, v) ==
    IF Encode(encoding[i], v) # EncoderError THEN Encode(encoding[i], v)
    ELSE IF old_encoding[i] # "none" THEN Encode(old_encoding[i], v)
    ELSE EncoderError

(***************************************************************************)
(* The backends' reads.                                                    *)
(***************************************************************************)
\* RedisDict.last_updated / ModelDict.last_updated: redis turns a missing
\* counter into 0, the model's cache returns None (Absent) for it
last_updated ==
    IF backend = "redis"
    THEN (IF counter = Absent THEN 0 ELSE counter)
    ELSE counter

\* RedisDict.durables decodes with self._decode, ModelDict.durables with
\* self.encoding.decode
DecodeStored(i, v) ==
    IF backend = "redis" THEN _decode(i, v) ELSE Decode(encoding[i], v)

\* a durables() that returns the records as stored, undecoded
durables_raw(i, s) == s

\* durables() on the store s: the decoded mapping; a failure on any record
\* makes the whole call raise
DurablesRaises(i, s) == \E k \in DOMAIN s : DecodeStored(i, s[k]) = EncoderError
durables(i, s) == [k \in DOMAIN s |-> DecodeStored(i, s[k])]

\* a cache_expired that reports the durable version whether or not it is
\* newer than last_synced
cache_expired_always(i) == last_updated

(***************************************************************************)
(* DurableDict.cache_expired: the durable version when the mirror is       *)
(* stale, None (Absent) otherwise.  The caller tests its truthiness.       *)
(***************************************************************************)
cache_expired(i) ==
    IF last_synced[i] = 0 \/ last_updated > last_synced[i]
    THEN last_updated
    ELSE Absent

\* truthiness of a version: None and 0 are falsy
VersionTruthy(x) == x # Absent /\ x # 0

(***************************************************************************)
(* The lookups of the reading methods, made on the mirror once the sync of *)
(* the method is over: get, __getitem__, __contains__, __len__, __eq__.    *)
(***************************************************************************)
Val(v) == [kind |-> "val", val |-> v]
Exc(kind) == [kind |-> kind, val |-> None]
NoRet == [kind |-> "none", val |-> None]
Ok == [kind |-> "ok", val |-> None]

\* a get that looks the key up as item access does
get_strict(i, k, default) ==
    IF Has(dict[i], k) THEN Val(dict[i][k]) ELSE Exc("KeyError")

get(i, k, default) == IF Has(dict[i], k) THEN Val(dict[i][k]) ELSE Val(default)
getitem(i, k) == IF Has(dict[i], k) THEN Val(dict[i][k]) ELSE Exc("KeyError")
contains(i, k) == Has(dict[i], k)
len(i) == Cardinality(DOMAIN dict[i])
eq(i, other) == dict[i] = other

(***************************************************************************)
(* Calls.  op[i] is the call instance i is in:                             *)
(*   name  the method ("read" for the five reading methods, "init" for the *)
(*         constructor),                                                   *)
(*   key, val  the arguments of a mutating call (val: value or default),   *)
(*   quiet no constructor or mutating call of another instance and no loss *)
(*         of the counter overlaps this call.                              *)
(* A call ends at pc "done", where ret[i] is what it returns or raises;    *)
(* the caller then takes the result (Return) before anything else runs.    *)
(* lastSet[k] is the value and the caller of a quiet set(k, v) that has    *)
(* returned, as long as no mutating call on k has been made since, NoSet   *)
(* otherwise.  quiet and lastSet record the run; no step of the program    *)
(* reads them.                                                             *)
(***************************************************************************)
NoSet == [val |-> None, by |-> 0]
NoCall == [cls |-> "none", method |-> "none", data |-> None, raises |-> "none"]
NoOp == [name |-> "none", key |-> "k1", val |-> None, quiet |-> FALSE]

\* no watch of a ZookeeperDict is set and no callback of one is due
NoWatch == [due |-> 0, data |-> {}]

Mutators == {"set", "del", "pop", "setdefault"}

Others(i) == Inst \ {i}
Quiet(i) ==
    \A j \in Others(i) :
        pc[j] \in {"new", "idle", "failed"} \/ op[j].name \in {"read", "sync"}

\* instance i enters call c; the calls of the others stop being quiet when
\* c is a constructor or a mutating call
Enter(i, c) ==
    op' = [j \in Inst |->
             IF j = i THEN [c EXCEPT !.quiet = Quiet(i)]
             ELSE IF c.name \in {"read", "sync"} THEN op[j]
             ELSE [op[j] EXCEPT !.quiet = FALSE]]

\* the call of instance i returns.  The constructor of RedisDict still has
\* its touch to make, and the caller of __getattr__('update') has the
\* mirror's method to call.
Finish(i) ==
    /\ pc' = [pc EXCEPT ![i] =
                IF op[i].name = "init" /\ backend = "redis" THEN "init_touch"
                ELSE IF op[i].name = "update" THEN "update"
                ELSE "done"]
    /\ ret' = [ret EXCEPT ![i] =
                IF op[i].name \in {"pop", "setdefault"} THEN Val(result[i])
                ELSE IF op[i].name = "update" THEN NoRet
                ELSE Ok]
    /\ lastSet' =
         IF op[i].name = "set" /\ op[i].quiet
         THEN [lastSet EXCEPT ![op[i].key] = [val |-> op[i].val, by |-> i]]
         ELSE lastSet
    /\ UNCHANGED <<cache_expired_at, result>>

\* the call of instance i raises: nothing after the raising statement runs.
\* A constructor that raises leaves no instance behind.
Raise(i, kind) ==
    /\ pc' = [pc EXCEPT ![i] = IF op[i].name = "init" THEN "failed" ELSE "done"]
    /\ ret' = [ret EXCEPT ![i] = Exc(kind)]
    /\ UNCHANGED <<lastSet, cache_expired_at, result>>

\* the call goes on at pc p
Goto(i, p) ==
    /\ pc' = [pc EXCEPT ![i] = p]
    /\ UNCHANGED <<ret, lastSet, cache_expired_at>>

\* the caller has the result: the locals of the call go
Return(i) ==
    /\ pc[i] = "done"
    /\ pc' = [pc EXCEPT ![i] = "idle"]
    /\ op' = [op EXCEPT ![i] = NoOp]
    /\ ret' = [ret EXCEPT ![i] = NoRet]
    /\ result' = [result EXCEPT ![i] = None]
    /\ cache_expired_at' = [cache_expired_at EXCEPT ![i] = Absent]
    /\ UNCHANGED <<config, ghost, store, counter, dict, last_synced, lastSet>>

\* no call is at its return point: every step but Return waits for it
Running == \A j \in Inst : pc[j] # "done"

(***************************************************************************)
(* Initial state: a fresh keyspace and no instance constructed yet.  The   *)
(* instances share one backend and use the default encoder, PickleEncoding;*)
(* instance 1 is built with autosync=True, instance 2 with autosync=False. *)
(***************************************************************************)
Encoders == {"pickle"}
AutosyncChoices == {[i \in Inst |-> i = 1]}

Init ==
    /\ backend \in {"redis", "model"}
    /\ store = EmptyDict
    /\ counter = Absent
    /\ dict = [i \in Inst |-> EmptyDict]
    /\ last_synced = [i \in Inst |-> 0]
    /\ autosync \in AutosyncChoices
    /\ \E e \in Encoders : encoding = [i \in Inst |-> e]
    /\ old_encoding = [i \in Inst |-> "none"]
    /\ pc = [i \in Inst |-> "new"]
    /\ op = [i \in Inst |-> NoOp]
    /\ result = [i \in Inst |-> None]
    /\ ret = [i \in Inst |-> NoRet]
    /\ cache_expired_at = [i \in Inst |-> Absent]
    /\ writes = 0
    /\ losses = 0
    /\ lastSet = [k \in Keys |-> NoSet]
    /\ keyspace = [i \in Inst |-> <<"ks">>]
    /\ db = EmptyDict
    /\ call = NoCall
    /\ outcome = NoRet
    /\ _last_updated = [i \in Inst |-> Absent]
    /\ child_watch = [i \in Inst |-> NoWatch]

(***************************************************************************)
(* DurableDict.__sync_with_durable_storage, in two store round trips:      *)
(* SyncCheck reads the version (cache_expired), SyncLoad reads the records *)
(* (durables) and assigns the mirror and last_synced.                      *)
(***************************************************************************)
SyncCheck(i) ==
    /\ Running
    /\ pc[i] = "sync"
    /\ IF VersionTruthy(cache_expired(i))
       THEN /\ cache_expired_at' = [cache_expired_at EXCEPT ![i] = cache_expired(i)]
            /\ pc' = [pc EXCEPT ![i] = "load"]
            /\ UNCHANGED <<ret, lastSet, result>>
       ELSE Finish(i)
    /\ UNCHANGED <<config, ghost, store, counter, dict, last_synced, op>>

SyncLoad(i) ==
    /\ Running
    /\ pc[i] = "load"
    /\ IF DurablesRaises(i, store)
       THEN /\ Raise(i, "DecodingError")
            /\ UNCHANGED <<dict, last_synced>>
       ELSE /\ dict' = [dict EXCEPT ![i] = durables(i, store)]
            /\ last_synced' = [last_synced EXCEPT ![i] = cache_expired_at[i]]
            /\ Finish(i)
    /\ UNCHANGED <<config, ghost, store, counter, op>>

(***************************************************************************)
(* Constructors.  DurableDict.__init__ empties the mirror, unsets          *)
(* last_synced and syncs; ModelDict.__init__ first adds the counter with   *)
(* value 1 when it is missing; RedisDict.__init__ touches the counter      *)
(* after the sync.                                                         *)
(***************************************************************************)
Construct(i) ==
    /\ Running
    /\ pc[i] = "new"
    /\ counter' = IF backend = "model" /\ counter = Absent THEN 1 ELSE counter
    /\ dict' = [dict EXCEPT ![i] = EmptyDict]
    /\ last_synced' = [last_synced EXCEPT ![i] = 0]
    /\ Enter(i, [NoOp EXCEPT !.name = "init"])
    /\ Goto(i, "sync")
    /\ UNCHANGED <<config, ghost, store, result>>

\* an increment by two
Incr_twice(c) == IF c = Absent THEN 1 ELSE c + 2

\* RedisDict.__touch_last_updated: INCR creates a missing counter at 1
Incr(c) == IF c = Absent THEN 1 ELSE c + 1

RedisInitTouch(i) ==
    /\ Running
    /\ pc[i] = "init_touch"
    /\ counter' = Incr(counter)
    /\ Goto(i, "done")
    /\ UNCHANGED <<config, ghost, store, dict, last_synced, op, result>>

(***************************************************************************)
(* Reads: get, __getitem__, __contains__, __len__, __eq__ (and the other   *)
(* dict methods reached through __getattr__).  Each syncs without force,   *)
(* which returns at once when autosync is off, and then looks the mirror   *)
(* up.                                                                     *)
(***************************************************************************)
Read(i) ==
    /\ Running
    /\ pc[i] = "idle"
    /\ Enter(i, [NoOp EXCEPT !.name = "read"])
    /\ pc' = [pc EXCEPT ![i] = IF autosync[i] THEN "sync" ELSE "done"]
    /\ ret' = [ret EXCEPT ![i] = IF autosync[i] THEN NoRet ELSE Ok]
    /\ UNCHANGED <<config, ghost, store, counter, dict, last_synced, result,
                   cache_expired_at, lastSet>>

\* DurableDict.sync: a sync with force
CallSync(i) ==
    /\ Running
    /\ pc[i] = "idle"
    /\ Enter(i, [NoOp EXCEPT !.name = "sync"])
    /\ Goto(i, "sync")
    /\ UNCHANGED <<config, ghost, store, counter, dict, last_synced, result>>

(***************************************************************************)
(* Mutating calls: __setitem__, __delitem__, pop, setdefault.  Each runs   *)
(* the backend's write (pc "write") and then syncs with force.             *)
(***************************************************************************)
Mutate(i, name, k, v) ==
    /\ Running
    /\ pc[i] = "idle"
    /\ writes < MaxWrites
    /\ writes' = writes + 1
    /\ Enter(i, [NoOp EXCEPT !.name = name, !.key = k, !.val = v])
    /\ lastSet' = [lastSet EXCEPT ![k] = NoSet]
    /\ pc' = [pc EXCEPT ![i] = "write"]
    /\ UNCHANGED ret
    /\ UNCHANGED <<config, losses, store, counter, dict, last_synced, result,
                   cache_expired_at>>

(***************************************************************************)
(* RedisDict writes.  __touch_and_multi runs INCR of the counter and the   *)
(* hash commands in one MULTI block: one step.                             *)
(***************************************************************************)
\* a persist that writes the value and leaves the counter for later
RedisPersist_unbumped(i) ==
    /\ Running
    /\ pc[i] = "write" /\ backend = "redis" /\ op[i].name = "set"
    /\ IF _encode(i, op[i].val) = EncoderError
       THEN /\ Raise(i, "EncodingError")
            /\ UNCHANGED <<store, counter>>
       ELSE /\ UNCHANGED counter
            /\ store' = Put(store, op[i].key, _encode(i, op[i].val))
            /\ Goto(i, "sync")
            /\ UNCHANGED result
    /\ UNCHANGED <<config, ghost, dict, last_synced, op>>

\* RedisDict.persist: HSET of the encoded value
RedisPersist(i) ==
    /\ Running
    /\ pc[i] = "write" /\ backend = "redis" /\ op[i].name = "set"
    /\ IF _encode(i, op[i].val) = EncoderError
       THEN /\ Raise(i, "EncodingError")
            /\ UNCHANGED <<store, counter>>
       ELSE /\ counter' = Incr(counter)
            /\ store' = Put(store, op[i].key, _encode(i, op[i].val))
            /\ Goto(i, "sync")
            /\ UNCHANGED result
    /\ UNCHANGED <<config, ghost, dict, last_synced, op>>

\* RedisDict.__touch_and_multi, pipe.incr raises (the connection fails):
\* the with block is left before any command is queued or executed
RedisIncrRaises(i) ==
    /\ Running
    /\ pc[i] = "write" /\ backend = "redis"
    /\ Raise(i, "ConnectionError")
    /\ UNCHANGED <<config, ghost, store, counter, dict, last_synced, op>>

\* RedisDict.depersist: HDEL, which does not fail on a missing field
RedisDepersist(i) ==
    /\ Running
    /\ pc[i] = "write" /\ backend = "redis" /\ op[i].name = "del"
    /\ counter' = Incr(counter)
    /\ store' = Del(store, op[i].key)
    /\ Goto(i, "sync")
    /\ UNCHANGED <<config, ghost, dict, last_synced, op, result>>

\* RedisDict._setdefault: HSETNX then HGET, the value read back is passed
\* through _decode
Redis_setdefault(i) ==
    LET k == op[i].key
        after == IF Has(store, k) THEN store
                 ELSE Put(store, k, _encode(i, op[i].val))
    IN
    /\ Running
    /\ pc[i] = "write" /\ backend = "redis" /\ op[i].name = "setdefault"
    /\ IF _encode(i, op[i].val) = EncoderError
       THEN /\ Raise(i, "EncodingError")
            /\ UNCHANGED <<store, counter>>
       ELSE /\ counter' = Incr(counter)
            /\ store' = after
            /\ IF _decode(i, after[k]) = EncoderError
               THEN Raise(i, "EncodingError")
               ELSE /\ result' = [result EXCEPT ![i] = _decode(i, after[k])]
                    /\ Goto(i, "sync")
    /\ UNCHANGED <<config, ghost, dict, last_synced, op>>

\* RedisDict._pop: HGET then HDEL; the stored value through _decode when the
\* field existed, else the default when it is truthy, else KeyError
Redis_pop(i) ==
    LET k == op[i].key IN
    /\ Running
    /\ pc[i] = "write" /\ backend = "redis" /\ op[i].name = "pop"
    /\ counter' = Incr(counter)
    /\ store' = Del(store, k)
    /\ IF Has(store, k)
       THEN IF _decode(i, store[k]) = EncoderError
            THEN Raise(i, "EncodingError")
            ELSE /\ result' = [result EXCEPT ![i] = _decode(i, store[k])]
                 /\ Goto(i, "sync")
       ELSE IF Truthy(op[i].val)
            THEN /\ result' = [result EXCEPT ![i] = op[i].val]
                 /\ Goto(i, "sync")
            ELSE Raise(i, "KeyError")
    /\ UNCHANGED <<config, ghost, dict, last_synced, op>>

(***************************************************************************)
(* ModelDict writes.  Every call to the manager (get_or_create, get, save, *)
(* delete) and to the cache (incr, add) is one step.  Rows are identified  *)
(* by their key column.                                                    *)
(***************************************************************************)
LAST_UPDATED_MISSING_INCREMENT == 1000

\* ModelDict.persist, get_or_create: creates the row with the encoded value,
\* or finds the row; a row found is saved again only when its stored value
\* differs from the value passed in (compared unencoded)
ModelPersist(i) ==
    LET k == op[i].key
        enc == Encode(encoding[i], op[i].val)
    IN
    /\ Running
    /\ pc[i] = "write" /\ backend = "model" /\ op[i].name = "set"
    /\ IF enc = EncoderError
       THEN /\ Raise(i, "EncodingError")
            /\ UNCHANGED store
       ELSE /\ store' = IF Has(store, k) THEN store ELSE Put(store, k, enc)
            /\ Goto(i, IF Has(store, k) /\ store[k] # op[i].val
                       THEN "save" ELSE "touch")
            /\ UNCHANGED result
    /\ UNCHANGED <<config, ghost, counter, dict, last_synced, op>>

\* ModelDict.persist, instance.save(): writes the encoded value to the row
ModelSave(i) ==
    LET k == op[i].key
        enc == Encode(encoding[i], op[i].val)
    IN
    /\ Running
    /\ pc[i] = "save"
    /\ IF enc = EncoderError
       THEN /\ Raise(i, "EncodingError")
            /\ UNCHANGED store
       ELSE /\ store' = Put(store, k, enc)
            /\ Goto(i, "touch")
            /\ UNCHANGED result
    /\ UNCHANGED <<config, ghost, counter, dict, last_synced, op>>

\* ModelDict.depersist, manager.get: DoesNotExist when there is no row
ModelDepersist(i) ==
    /\ Running
    /\ pc[i] = "write" /\ backend = "model" /\ op[i].name = "del"
    /\ IF Has(store, op[i].key)
       THEN /\ Goto(i, "delete")
            /\ UNCHANGED result
       ELSE Raise(i, "DoesNotExist")
    /\ UNCHANGED <<config, ghost, store, counter, dict, last_synced, op>>

\* ModelDict.depersist and ModelDict._pop, instance.delete()
ModelDelete(i) ==
    /\ Running
    /\ pc[i] = "delete"
    /\ store' = Del(store, op[i].key)
    /\ Goto(i, "touch")
    /\ UNCHANGED <<config, ghost, counter, dict, last_synced, op, result>>

\* ModelDict._setdefault: get_or_create, a touch only when the row was
\* created, and the decoded value of the row
Model_setdefault(i) ==
    LET k == op[i].key
        enc == Encode(encoding[i], op[i].val)
        row == IF Has(store, k) THEN store[k] ELSE enc
    IN
    /\ Running
    /\ pc[i] = "write" /\ backend = "model" /\ op[i].name = "setdefault"
    /\ IF enc = EncoderError
       THEN /\ Raise(i, "EncodingError")
            /\ UNCHANGED store
       ELSE /\ store' = IF Has(store, k) THEN store ELSE Put(store, k, enc)
            /\ IF Has(store, k) /\ Decode(encoding[i], row) = EncoderError
               THEN Raise(i, "DecodingError")
               ELSE /\ result' = [result EXCEPT ![i] = Decode(encoding[i], row)]
                    /\ Goto(i, IF Has(store, k) THEN "sync" ELSE "touch")
    /\ UNCHANGED <<config, ghost, counter, dict, last_synced, op>>

\* ModelDict._pop, manager.get: the decoded value of the row; without a row
\* the default when it is not None, else KeyError
Model_pop(i) ==
    LET k == op[i].key IN
    /\ Running
    /\ pc[i] = "write" /\ backend = "model" /\ op[i].name = "pop"
    /\ IF Has(store, k)
       THEN IF Decode(encoding[i], store[k]) = EncoderError
            THEN Raise(i, "DecodingError")
            ELSE /\ result' = [result EXCEPT ![i] = Decode(encoding[i], store[k])]
                 /\ Goto(i, "delete")
       ELSE IF op[i].val # None
            THEN /\ result' = [result EXCEPT ![i] = op[i].val]
                 /\ Goto(i, "sync")
            ELSE Raise(i, "KeyError")
    /\ UNCHANGED <<config, ghost, store, counter, dict, last_synced, op>>

(***************************************************************************)
(* ModelDict.touch_last_updated: incr; when the counter is missing, add    *)
(* last_synced + LAST_UPDATED_MISSING_INCREMENT; when the add loses to     *)
(* another instance, incr again.                                           *)
(***************************************************************************)
\* what follows the touch: a setdefault whose row does not decode raises,
\* every other call syncs
AfterTouch(i) ==
    IF op[i].name = "setdefault" /\ result[i] = EncoderError
    THEN Raise(i, "DecodingError")
    ELSE /\ Goto(i, "sync")
         /\ UNCHANGED result

\* a touch that stores the version the instance last saw plus one
TouchIncr_stale(i) ==
    /\ Running
    /\ pc[i] = "touch"
    /\ IF counter # Absent
       THEN /\ counter' = last_synced[i] + 1
            /\ AfterTouch(i)
       ELSE /\ Goto(i, "touch_add")
            /\ UNCHANGED <<counter, result>>
    /\ UNCHANGED <<config, ghost, store, dict, last_synced, op>>

\* ModelDict.touch_last_updated, cache.incr: one atomic increment of the
\* counter in the cache; ValueError when the counter is missing
TouchIncr(i) ==
    /\ Running
    /\ pc[i] = "touch"
    /\ IF counter # Absent
       THEN /\ counter' = counter + 1
            /\ AfterTouch(i)
       ELSE /\ Goto(i, "touch_add")
            /\ UNCHANGED <<counter, result>>
    /\ UNCHANGED <<config, ghost, store, dict, last_synced, op>>

\* a recovery that adds the naive increment 1 instead
missing_value_naive(i) == last_synced[i] + 1

\* the value touch_last_updated adds for a missing counter
missing_value(i) == last_synced[i] + LAST_UPDATED_MISSING_INCREMENT

TouchAdd(i) ==
    /\ Running
    /\ pc[i] = "touch_add"
    /\ IF counter = Absent
       THEN /\ counter' = missing_value(i)
            /\ AfterTouch(i)
       ELSE /\ Goto(i, "touch_incr")
            /\ UNCHANGED <<counter, result>>
    /\ UNCHANGED <<config, ghost, store, dict, last_synced, op>>

\* a fallback that leaves the counter of the winner as it is
TouchIncrAgain_skipped(i) ==
    /\ Running
    /\ pc[i] = "touch_incr"
    /\ IF counter # Absent
       THEN /\ UNCHANGED counter
            /\ AfterTouch(i)
       ELSE /\ Raise(i, "ValueError")
            /\ UNCHANGED counter
    /\ UNCHANGED <<config, ghost, store, dict, last_synced, op>>

\* the second incr is not guarded: it raises ValueError when the counter
\* has gone missing again
TouchIncrAgain(i) ==
    /\ Running
    /\ pc[i] = "touch_incr"
    /\ IF counter # Absent
       THEN /\ counter' = counter + 1
            /\ AfterTouch(i)
       ELSE /\ Raise(i, "ValueError")
            /\ UNCHANGED counter
    /\ UNCHANGED <<config, ghost, store, dict, last_synced, op>>

(***************************************************************************)
(* The environment: the counter is evicted from the cache, or deleted.     *)
(***************************************************************************)
LoseCounter ==
    /\ Running
    /\ counter # Absent
    /\ losses < MaxLoss
    /\ losses' = losses + 1
    /\ counter' = Absent
    /\ op' = [j \in Inst |-> [op[j] EXCEPT !.quiet = FALSE]]
    /\ UNCHANGED <<config, writes, store, dict, last_synced, pc,
                   result, ret, cache_expired_at, lastSet>>

(***************************************************************************)
(* The specification.                                                      *)
(***************************************************************************)
Step(i) ==
    \/ Construct(i)
    \/ RedisInitTouch(i)
    \/ SyncCheck(i)
    \/ SyncLoad(i)
    \/ CallSync(i)
    \/ Read(i)
    \/ \E k \in Keys, v \in InputVals : Mutate(i, "set", k, v)
    \/ \E k \in Keys : Mutate(i, "del", k, None)
    \/ \E k \in Keys, v \in Defaults : Mutate(i, "pop", k, v)
    \/ \E k \in Keys, v \in SetDefaults : Mutate(i, "setdefault", k, v)
    \/ RedisIncrRaises(i)
    \/ RedisPersist(i)
    \/ RedisDepersist(i)
    \/ Redis_setdefault(i)
    \/ Redis_pop(i)
    \/ ModelPersist(i)
    \/ ModelSave(i)
    \/ ModelDepersist(i)
    \/ ModelDelete(i)
    \/ Model_setdefault(i)
    \/ Model_pop(i)
    \/ TouchIncr(i)
    \/ TouchAdd(i)
    \/ TouchIncrAgain(i)
    \/ Return(i)

Next == LoseCounter \/ \E i \in Inst : Step(i)

Spec == Init /\ [][Next]_vars

(***************************************************************************)
(* Vocabulary of the properties.                                           *)
(***************************************************************************)
\* the call of instance i has returned normally and its caller has the result
Returned(i) == pc[i] = "done" /\ ret[i].kind \in {"ok", "val"}

\* the sync of the call instance i is in has reloaded the mirror
Reloaded(i) == cache_expired_at[i] # Absent

\* instance i exists: its constructor has been called and has not raised
Alive(i) == pc[i] \notin {"new", "failed"}

\* the step is a touch of the counter by instance i
Touches(i) ==
    /\ pc[i] \in {"write", "init_touch", "touch", "touch_add", "touch_incr"}
    /\ pc'[i] # pc[i]
    /\ counter' # counter

\* the counter was absent when the touch instance i is making was called
AbsentAtTouch(i) == counter = Absent \/ pc[i] \in {"touch_add", "touch_incr"}

(***************************************************************************)
(* C1.  Read-your-writes on one instance: with no other instance and no    *)
(* loss of the counter, a get(k) that returns after set(k, v) has returned *)
(* (and no other mutating call on k was made since) returns v.             *)
(***************************************************************************)
\* C1: a get after a set on a single instance returns the value set
C1_ReadYourWrites ==
    \A i \in Inst, k \in Keys :
        ( /\ Returned(i) /\ op[i].name = "read"
          /\ \A j \in Others(i) : pc[j] = "new"
          /\ losses = 0
          /\ lastSet[k].by = i )
        => get(i, k, None) = Val(lastSet[k].val)

(***************************************************************************)
(* C2.  Cross-instance visibility: with the counter never lost, once       *)
(* A.set(k, v) has returned and no later mutating call on k was made, a    *)
(* B.sync() (or a read of B when B has autosync) made afterwards and       *)
(* overlapping no write leaves B.get(k) = v.                               *)
(***************************************************************************)
\* C2: after A.set(k, v) and B.sync() or an autosync read of B, B.get(k) is v
C2_CrossInstanceVisibility ==
    \A b \in Inst, k \in Keys :
        ( /\ Returned(b) /\ op[b].quiet
          /\ op[b].name = "sync" \/ (op[b].name = "read" /\ autosync[b])
          /\ losses = 0
          /\ lastSet[k].by \in Others(b)
          /\ pc[lastSet[k].by] = "idle" )
        => get(b, k, None) = Val(lastSet[k].val)

(***************************************************************************)
(* C3.  Conditional resync: the sync of a read on an autosync instance     *)
(* goes on to reload exactly when last_synced is unset (0) or the durable  *)
(* version is greater than last_synced; the reload assigns the mirror what *)
(* durables() returns and last_synced the version read; otherwise mirror   *)
(* and last_synced stay as they are.                                       *)
(***************************************************************************)
\* C3: a read reloads exactly when last_synced is unset or the version is newer
C3_ConditionalResync ==
    [][\A i \in Inst :
         /\ (pc[i] = "sync" /\ op[i].name = "read" /\ pc'[i] # "sync")
            => /\ (last_synced[i] = 0 \/ last_updated > last_synced[i])
                    <=> pc'[i] = "load"
               /\ dict'[i] = dict[i] /\ last_synced'[i] = last_synced[i]
         /\ (pc[i] = "load" /\ op[i].name = "read" /\ pc'[i] = "done" /\ ret'[i] = Ok)
            => /\ dict'[i] = durables(i, store)
               /\ last_synced'[i] = cache_expired_at[i]
      ]_vars

(***************************************************************************)
(* C4.  In every state of an instance, cache_expired is true (truthy, as   *)
(* its caller tests it) if and only if last_synced is unset (0) or the     *)
(* durable version is greater than last_synced, also when the durable      *)
(* version is 0 or absent.                                                 *)
(***************************************************************************)
\* C4: cache_expired is true iff last_synced is unset or the version is newer
C4_CacheExpiredIff ==
    \A i \in Inst :
        Alive(i) =>
            ( VersionTruthy(cache_expired(i))
              <=> (last_synced[i] = 0 \/ last_updated > last_synced[i]) )

(***************************************************************************)
(* C5.  last_synced of an instance never decreases once the constructor    *)
(* has set it, whatever the instances do and however often the counter is  *)
(* lost and re-created.                                                    *)
(***************************************************************************)
\* C5: last_synced never decreases over the lifetime of an instance
C5_LastSyncedMonotonic ==
    [][\A i \in Inst : pc[i] # "new" => last_synced'[i] >= last_synced[i]]_vars

\* the counter was lost and re-created below what instance i has synced to,
\* and a sync of i has run since and returned
C5_Witness ==
    \E i \in Inst :
        /\ Returned(i) /\ op[i].name \in {"read", "sync"} \cup Mutators
        /\ autosync[i] \/ op[i].name # "read"
        /\ losses > 0
        /\ counter # Absent /\ counter < last_synced[i]

(***************************************************************************)
(* C6.  Every mutating call reloads the mirror before it returns: when it  *)
(* returns, its sync has reloaded, last_synced is the version that sync    *)
(* read, and (no other write overlapping the call) the mirror is what      *)
(* durables() returns, the call's own write included.  Stated here for the *)
(* runs in which the counter is never lost.                                *)
(***************************************************************************)
\* C6: a mutating call has reloaded the whole mirror when it returns
C6_MutatorsReload ==
    \A i \in Inst :
        (Returned(i) /\ op[i].name \in Mutators /\ losses = 0)
        => /\ Reloaded(i)
           /\ last_synced[i] = cache_expired_at[i]
           /\ op[i].quiet => dict[i] = durables(i, store)

(***************************************************************************)
(* C7.  Monotonic visibility.  The store has one history and every change  *)
(* of a mirror is a load of the whole store as it is at that step, so the  *)
(* states a mirror goes through follow the store's history in order: no    *)
(* step gives a mirror anything but the current records.                   *)
(***************************************************************************)
\* C7: every change of a mirror loads the store as it is, never an older state
C7_MonotonicVisibility ==
    [][\A i \in Inst :
         dict'[i] # dict[i]
         => dict'[i] = [k \in DOMAIN store' |-> DecodeStored(i, store'[k])]
      ]_vars

\* an instance that has loaded a record before is about to reload, and the
\* store has moved on from what its mirror shows
C7_Witness ==
    \E i \in Inst, k \in Keys :
        /\ pc[i] = "load"
        /\ last_synced[i] > 0
        /\ Has(dict[i], k)
        /\ ~DurablesRaises(i, store)
        /\ dict[i] # [x \in DOMAIN store |-> DecodeStored(i, store[x])]

(***************************************************************************)
(* C8.  Construction loads the store: when a constructor that overlapped   *)
(* no write returns, the mirror is what durables() returns, whatever the   *)
(* store held before, a store with records and no counter included.        *)
(***************************************************************************)
\* C8: after the constructor returns the mirror equals the durable store
C8_ConstructorLoads ==
    \A i \in Inst :
        (Returned(i) /\ op[i].name = "init" /\ op[i].quiet)
        => dict[i] = durables(i, store)

(***************************************************************************)
(* C9.  With autosync off a read leaves mirror and last_synced alone, and  *)
(* when sync() or a mutating call of the instance returns (no write        *)
(* overlapping it), the mirror is what durables() returns: it contains the *)
(* changes made by others.                                                 *)
(***************************************************************************)
\* C9: without autosync reads change nothing, sync() and own writes refresh
C9_AutosyncOffFrame ==
    [][\A i \in Inst :
         ~autosync[i] =>
           /\ (pc[i] = "idle" /\ op'[i].name = "read")
              => (dict'[i] = dict[i] /\ last_synced'[i] = last_synced[i]
                  /\ pc'[i] = "done")
           /\ (pc'[i] = "done" /\ pc[i] # "done" /\ ret'[i].kind \in {"ok", "val"}
               /\ op[i].name \in {"sync"} \cup Mutators /\ op[i].quiet)
              => dict'[i] = durables(i, store')
      ]_vars

(***************************************************************************)
(* C10.  Every touch strictly increases the visible version: the version   *)
(* read after the step that writes the counter is greater than the version *)
(* read before it, and when the counter was absent at the touch the new    *)
(* value is greater than the last_synced of the instance that touches.     *)
(***************************************************************************)
\* C10: a touch strictly increases the version, above last_synced when the
\* counter was absent
C10_TouchStrictlyIncreases ==
    [][\A i \in Inst :
         Touches(i) =>
           /\ last_updated' > last_updated
           /\ AbsentAtTouch(i) => last_updated' > last_synced[i]
      ]_vars

(***************************************************************************)
(* C11.  The durable version never decreases: a set (non-absent) version   *)
(* read now is not below a version read earlier.  last_synced[i] is a      *)
(* version instance i read earlier, so no set counter is below it.         *)
(***************************************************************************)
\* C11: the set values of the durable version never decrease
C11_VersionMonotonic ==
    \A i \in Inst :
        (Alive(i) /\ counter # Absent) => last_updated >= last_synced[i]

(***************************************************************************)
(* C12.  Counter recovery value: when the add of touch_last_updated finds  *)
(* the counter still absent, the counter afterwards is the toucher's       *)
(* last_synced + LAST_UPDATED_MISSING_INCREMENT and the touch is over: the *)
(* call goes on to what follows the touch, with no further incr.           *)
(***************************************************************************)
\* C12: a successful create-if-absent leaves last_synced + 1000, no incr after
C12_RecoveryValue ==
    [][\A i \in Inst :
         (pc[i] = "touch_add" /\ pc'[i] # "touch_add" /\ counter = Absent)
         => /\ counter' = last_synced[i] + LAST_UPDATED_MISSING_INCREMENT
            /\ pc'[i] \in {"sync", "done"}
      ]_vars

\* a mutating call of a ModelDict has recovered the counter and is about to
\* sync
C12_Witness ==
    \E i \in Inst :
        /\ backend = "model" /\ losses > 0
        /\ pc[i] = "sync" /\ op[i].name \in Mutators
        /\ last_synced[i] > 0
        /\ counter = last_synced[i] + LAST_UPDATED_MISSING_INCREMENT

(***************************************************************************)
(* C13.  Counter recovery race.  Of two instances that both found the      *)
(* counter absent, the one whose add comes first creates the counter and   *)
(* the other stays in its touch; an add that finds the counter present     *)
(* leaves it alone and falls back to incr; the fallback incr adds exactly  *)
(* one, so that the counter ends at the creator's value plus one.          *)
(***************************************************************************)
\* instance i lost the race to instance j: j created the counter and has not
\* moved since, i is about to fall back to its incr
LostRaceTo(i, j) ==
    /\ backend = "model"
    /\ pc[i] = "touch_incr"
    /\ pc[j] = "sync" /\ op[j].name \in Mutators
    /\ counter = last_synced[j] + LAST_UPDATED_MISSING_INCREMENT

\* C13: of two racing recoveries one creates, the other increments, none lost
C13_RecoveryRace ==
    [][\A i \in Inst : \A j \in Inst \ {i} :
         /\ (pc[i] = "touch_add" /\ pc[j] = "touch_add" /\ counter = Absent
               /\ pc'[i] # "touch_add")
            => /\ counter' = last_synced[i] + LAST_UPDATED_MISSING_INCREMENT
               /\ pc'[i] # "touch_incr"
               /\ pc'[j] = "touch_add"
         /\ (pc[i] = "touch_add" /\ counter # Absent /\ pc'[i] # "touch_add")
            => /\ counter' = counter
               /\ pc'[i] = "touch_incr"
         /\ (pc[i] = "touch_incr" /\ counter # Absent /\ pc'[i] # "touch_incr")
            => /\ counter' = counter + 1
               /\ pc'[i] \in {"sync", "done"}
               /\ ret'[i].kind # "ValueError"
         /\ (LostRaceTo(i, j) /\ pc'[i] # "touch_incr")
            => counter' = last_synced[j] + LAST_UPDATED_MISSING_INCREMENT + 1
      ]_vars

\* a race has happened: both instances found the counter absent after their
\* constructors had synced, one has created it and the other, whose add has
\* failed, is about to increment
C13_Witness ==
    \E i \in Inst : \E j \in Inst \ {i} :
        /\ LostRaceTo(i, j)
        /\ losses > 0
        /\ last_synced[i] > 0 /\ last_synced[j] > 0

(***************************************************************************)
(* C14.  Counter loss is never data loss: once the counter has been lost   *)
(* and a touch has put it back, a write that has returned is in the store, *)
(* and an autosync instance that has made a read since serves a mirror     *)
(* that is what a reload of the store gives.                               *)
(***************************************************************************)
\* a set of key k has returned, no mutating call on k was made since
Completed(k) == lastSet[k].by # 0 /\ pc[lastSet[k].by] = "idle"

\* C14: after loss and recovery completed writes are stored and reads see them
C14_LossIsNotDataLoss ==
    \A k \in Keys :
        (losses > 0 /\ counter # Absent /\ Completed(k))
        => /\ Has(store, k)
           /\ \A b \in Others(lastSet[k].by) :
                ( /\ Returned(b) /\ op[b].quiet
                  /\ op[b].name = "read" /\ autosync[b] )
                => dict[b] = durables(b, store)

(***************************************************************************)
(* C15.  setdefault version accounting: the write of a setdefault on an    *)
(* absent key inserts the key and is followed by exactly one touch; the    *)
(* write of a setdefault on a key that exists leaves the counter as it is  *)
(* and no touch follows.                                                   *)
(***************************************************************************)
\* the step is the backend's _setdefault of the call instance i is in
SetdefaultWrite(i) ==
    /\ pc[i] = "write" /\ op[i].name = "setdefault"
    /\ pc'[i] # "write"
    /\ ret'[i].kind # "ConnectionError"

\* C15: setdefault bumps the version once for a new key, not for an old one
C15_SetdefaultVersion ==
    [][\A i \in Inst :
         SetdefaultWrite(i) =>
            IF Has(store, op[i].key)
            THEN /\ counter' = counter
                 /\ pc'[i] \in {"sync", "done"}
            ELSE \/ pc'[i] = "done" /\ ret'[i].kind = "EncodingError"
                 \/ /\ Has(store', op[i].key)
                    /\ \/ pc'[i] = "touch" /\ counter' = counter
                       \/ pc'[i] = "sync" /\ counter' = Incr(counter)
      ]_vars

(***************************************************************************)
(* C16.  setdefault value semantics: when setdefault(k, d) has returned    *)
(* and nothing else ran meanwhile, k is stored, the mirror holds for k the *)
(* value the stored record decodes to, and that value is what the call     *)
(* returned: d when the call inserted it, the existing value otherwise.    *)
(***************************************************************************)
\* C16: setdefault returns the value of k, on which mirror and store agree
C16_SetdefaultValue ==
    \A i \in Inst :
        (Returned(i) /\ op[i].name = "setdefault" /\ op[i].quiet
           /\ losses = 0)
        => LET k == op[i].key IN
           /\ Has(store, k)
           /\ Has(dict[i], k)
           /\ dict[i][k] = Decode(encoding[i], store[k])
           /\ ret[i] = Val(dict[i][k])
           /\ store[k] = Encode(encoding[i], op[i].val) => ret[i] = Val(op[i].val)

(***************************************************************************)
(* C17.  pop on an absent key: the backend's _pop leaves the stored        *)
(* records and the mirrors as they are; with a default (anything but None) *)
(* the call goes on to return the default, without a default it raises     *)
(* KeyError.                                                               *)
(***************************************************************************)
\* the step is the backend's _pop of the call instance i is in
PopWrite(i) ==
    /\ pc[i] = "write" /\ op[i].name = "pop"
    /\ pc'[i] # "write"
    /\ ret'[i].kind # "ConnectionError"

\* C17: pop of an absent key returns the default or raises KeyError
C17_PopAbsent ==
    [][\A i \in Inst :
         (PopWrite(i) /\ ~Has(store, op[i].key))
         => /\ store' = store
            /\ dict' = dict
            /\ IF op[i].val # None
               THEN /\ result'[i] = op[i].val
                    /\ pc'[i] = "sync"
               ELSE /\ pc'[i] = "done"
                    /\ ret'[i] = Exc("KeyError")
      ]_vars

(***************************************************************************)
(* C18.  Removal of a present key: the backend's _pop of a stored key      *)
(* hands back the value the record decodes to; and when a pop or a delete  *)
(* that overlapped nothing returns, the key is in neither the store nor    *)
(* the mirror, the mirror is as long as the store, contains is false and   *)
(* item access raises KeyError.                                            *)
(***************************************************************************)
\* the step ends a pop or a delete of instance i that overlapped nothing
RemovalReturns(i) ==
    /\ pc[i] # "done" /\ pc'[i] = "done"
    /\ ret'[i].kind \in {"ok", "val"}
    /\ op[i].name \in {"pop", "del"} /\ op[i].quiet
    /\ losses = 0

\* C18: pop returns the stored value; after pop or delete the key is gone
C18_RemovePresent ==
    [][\A i \in Inst :
         LET k == op[i].key IN
         /\ (PopWrite(i) /\ Has(store, k))
            => /\ result'[i] = Decode(encoding[i], store[k])
               /\ pc'[i] \in {"sync", "delete"}
         /\ RemovalReturns(i)
            => /\ ~Has(store', k)
               /\ ~Has(dict'[i], k)
               /\ Cardinality(DOMAIN dict'[i]) = Cardinality(DOMAIN store')
               /\ (pc[i] = "load" /\ Has(dict[i], k))
                  => Cardinality(DOMAIN dict'[i])
                       = Cardinality(DOMAIN dict[i]) - 1
               /\ (op[i].name = "pop" /\ result[i] # op[i].val)
                  => ret'[i] = Val(result[i])
      ]_vars

(***************************************************************************)
(* C19.  delete of an absent key: the backend's depersist of a key that is *)
(* not stored raises KeyError and leaves the stored records, the counter   *)
(* and the mirrors as they are.                                            *)
(***************************************************************************)
\* the step is the backend's depersist of the call instance i is in
DeleteWrite(i) ==
    /\ pc[i] = "write" /\ op[i].name = "del"
    /\ pc'[i] # "write"
    /\ ret'[i].kind # "ConnectionError"

\* C19: delete of an absent key raises KeyError and changes nothing
C19_DeleteAbsent ==
    [][\A i \in Inst :
         (DeleteWrite(i) /\ ~Has(store, op[i].key))
         => /\ pc'[i] = "done"
            /\ ret'[i] = Exc("KeyError")
            /\ store' = store
            /\ counter' = counter
            /\ dict' = dict
      ]_vars

(***************************************************************************)
(* C20.  get(k, default) never raises for a missing key.  No step of a     *)
(* reading call changes the stored records or the counter, the call does   *)
(* not end with KeyError, and when it has returned get gives the mirrored  *)
(* value of a key the mirror holds and the default (None when omitted) for *)
(* a key it does not hold.                                                 *)
(***************************************************************************)
\* the step is one of a reading call of instance i
ReadStep(i) == op'[i].name = "read" /\ pc'[i] # pc[i]

\* C20: get returns the mirrored value or the default and writes nothing
C20_GetNeverRaises ==
    [][\A i \in Inst :
         ReadStep(i)
         => /\ store' = store
            /\ counter' = counter
            /\ pc'[i] = "done"
               => /\ ret'[i].kind # "KeyError"
                  /\ ret'[i] = Ok
                     => \A k \in Keys, d \in Defaults :
                          get(i, k, d)' = IF Has(dict'[i], k)
                                          THEN Val(dict'[i][k])
                                          ELSE Val(d)
      ]_vars

\* a read of an autosync instance has reloaded a mirror without k1 and has
\* returned: get("k1", d) is the default
C20_Witness ==
    \E i \in Inst :
        /\ Returned(i) /\ op[i].name = "read"
        /\ autosync[i] /\ Reloaded(i)
        /\ writes > 0
        /\ ~Has(dict[i], "k1")
        /\ get(i, "k1", V(1)) = Val(V(1))

(***************************************************************************)
(* C21.  The version increment and the value write of RedisDict are one    *)
(* atomic unit.  Stated of the store: no step changes the records without  *)
(* incrementing the counter in the same step, a write that goes through    *)
(* increments the counter, and a write whose increment raises changes      *)
(* neither.  Stated of an observer: an instance reads the version and the  *)
(* records in two round trips (cache_expired, then durables).              *)
(***************************************************************************)
\* the step is the write of a mutating call of RedisDict instance i
RedisWrite(i) ==
    /\ backend = "redis"
    /\ pc[i] = "write" /\ pc'[i] # "write"

\* the step is a reload of the mirror of RedisDict instance i
RedisReload(i) ==
    /\ backend = "redis"
    /\ pc[i] = "load" /\ pc'[i] # "load"
    /\ dict'[i] = durables(i, store) /\ last_synced'[i] = cache_expired_at[i]

Keyspaces == {<<"ks">>, <<"other">>, <<"ks", "last_updated">>}

\* RedisDict.__last_update_key
last_update_key(i) == keyspace[i] \o <<"last_updated">>

String(n) == [type |-> "string", n |-> n, h |-> EmptyDict]
Hash(h) == [type |-> "hash", n |-> 0, h |-> h]
WrongType(d, key, type) == Has(d, key) /\ d[key].type # type

\* INCR, HSET, HDEL on database d (HDEL of the last field removes the key)
INCR(d, key) ==
    IF WrongType(d, key, "string") THEN d
    ELSE Put(d, key, String(IF Has(d, key) THEN d[key].n + 1 ELSE 1))
HSET(d, key, f, v) ==
    IF WrongType(d, key, "hash") THEN d
    ELSE Put(d, key, Hash(Put(IF Has(d, key) THEN d[key].h ELSE EmptyDict, f, v)))
HDEL(d, key, f) ==
    IF WrongType(d, key, "hash") \/ ~Has(d, key) THEN d
    ELSE IF DOMAIN d[key].h \subseteq {f} THEN Del(d, key)
    ELSE Put(d, key, Hash(Del(d[key].h, f)))

\* RedisDict.last_updated: int(GET or 0)
KsLastUpdated(i, d) ==
    IF Has(d, last_update_key(i)) THEN d[last_update_key(i)].n ELSE 0

\* DurableDict.cache_expired on database d
KsCacheExpired(i, d) ==
    IF last_synced[i] = 0 \/ KsLastUpdated(i, d) > last_synced[i]
    THEN KsLastUpdated(i, d) ELSE Absent

\* RedisDict.durables: HGETALL of the keyspace, decoded
KsDurables(i, d) ==
    IF Has(d, keyspace[i]) THEN durables(i, d[keyspace[i]].h) ELSE EmptyDict

\* __sync_with_durable_storage on database d, from last_synced ls: whether
\* it raises, and the mirror and last_synced it leaves
KsSyncRaises(i, d) ==
    \/ WrongType(d, last_update_key(i), "string")
    \/ /\ VersionTruthy(KsCacheExpired(i, d))
       /\ WrongType(d, keyspace[i], "hash")
KsSyncDict(i, d) ==
    IF VersionTruthy(KsCacheExpired(i, d)) THEN KsDurables(i, d) ELSE dict[i]
KsSyncVersion(i, d) ==
    IF VersionTruthy(KsCacheExpired(i, d)) THEN KsCacheExpired(i, d)
    ELSE last_synced[i]

KsInit ==
    /\ backend = "redis"
    /\ store = EmptyDict
    /\ counter = Absent
    /\ dict = [i \in Inst |-> EmptyDict]
    /\ last_synced = [i \in Inst |-> 0]
    /\ autosync \in AutosyncChoices
    /\ encoding = [i \in Inst |-> "pickle"]
    /\ old_encoding = [i \in Inst |-> "none"]
    /\ pc = [i \in Inst |-> "new"]
    /\ op = [i \in Inst |-> NoOp]
    /\ result = [i \in Inst |-> None]
    /\ ret = [i \in Inst |-> NoRet]
    /\ cache_expired_at = [i \in Inst |-> Absent]
    /\ writes = 0
    /\ losses = 0
    /\ lastSet = [k \in Keys |-> NoSet]
    /\ keyspace \in [Inst -> Keyspaces]
    /\ \A i \in Inst : \A j \in Inst \ {i} : keyspace[i] # keyspace[j]
    /\ db = EmptyDict
    /\ call = NoCall
    /\ outcome = NoRet
    /\ _last_updated = [i \in Inst |-> Absent]
    /\ child_watch = [i \in Inst |-> NoWatch]

\* RedisDict.__init__: the sync of DurableDict.__init__, then INCR
KsConstruct(i) ==
    /\ Running
    /\ pc[i] = "new"
    /\ IF KsSyncRaises(i, db)
       THEN /\ pc' = [pc EXCEPT ![i] = "failed"]
            /\ ret' = [ret EXCEPT ![i] = Exc("ResponseError")]
            /\ UNCHANGED <<db, dict, last_synced>>
       ELSE /\ pc' = [pc EXCEPT ![i] = "done"]
            /\ ret' = [ret EXCEPT ![i] = Ok]
            /\ dict' = [dict EXCEPT ![i] = KsSyncDict(i, db)]
            /\ last_synced' = [last_synced EXCEPT ![i] = KsSyncVersion(i, db)]
            /\ db' = INCR(db, last_update_key(i))
    /\ UNCHANGED <<backend, store, counter, autosync, encoding, old_encoding,
                   op, result, cache_expired_at, ghost, lastSet, keyspace,
                   call, outcome, _last_updated, child_watch>>

\* a mutating call: the MULTI block has left database d; the call raises
\* when a command failed, and syncs with force otherwise
KsWritten(i, d, failed) ==
    /\ db' = d
    /\ pc' = [pc EXCEPT ![i] = "done"]
    /\ writes' = writes + 1
    /\ IF failed \/ KsSyncRaises(i, d)
       THEN /\ ret' = [ret EXCEPT ![i] = Exc("ResponseError")]
            /\ UNCHANGED <<dict, last_synced>>
       ELSE /\ ret' = [ret EXCEPT ![i] = Ok]
            /\ dict' = [dict EXCEPT ![i] = KsSyncDict(i, d)]
            /\ last_synced' = [last_synced EXCEPT ![i] = KsSyncVersion(i, d)]
    /\ UNCHANGED <<backend, store, counter, autosync, encoding, old_encoding,
                   op, result, cache_expired_at, losses, lastSet, keyspace,
                   call, outcome, _last_updated, child_watch>>

\* __setitem__: MULTI of INCR and HSET, then the forced sync
KsSet(i, k, v) ==
    /\ Running
    /\ pc[i] = "idle"
    /\ writes < MaxWrites
    /\ KsWritten(i, HSET(INCR(db, last_update_key(i)), keyspace[i], k, _encode(i, v)),
                 \/ WrongType(db, last_update_key(i), "string")
                 \/ WrongType(INCR(db, last_update_key(i)), keyspace[i], "hash"))

\* __delitem__: MULTI of INCR and HDEL, then the forced sync
KsDelete(i, k) ==
    /\ Running
    /\ pc[i] = "idle"
    /\ writes < MaxWrites
    /\ KsWritten(i, HDEL(INCR(db, last_update_key(i)), keyspace[i], k),
                 \/ WrongType(db, last_update_key(i), "string")
                 \/ WrongType(INCR(db, last_update_key(i)), keyspace[i], "hash"))

\* a reading method: the sync, when the instance has autosync
KsRead(i) ==
    /\ Running
    /\ pc[i] = "idle"
    /\ pc' = [pc EXCEPT ![i] = "done"]
    /\ IF ~autosync[i]
       THEN /\ ret' = [ret EXCEPT ![i] = Ok]
            /\ UNCHANGED <<dict, last_synced>>
       ELSE IF KsSyncRaises(i, db)
       THEN /\ ret' = [ret EXCEPT ![i] = Exc("ResponseError")]
            /\ UNCHANGED <<dict, last_synced>>
       ELSE /\ ret' = [ret EXCEPT ![i] = Ok]
            /\ dict' = [dict EXCEPT ![i] = KsSyncDict(i, db)]
            /\ last_synced' = [last_synced EXCEPT ![i] = KsSyncVersion(i, db)]
    /\ UNCHANGED <<backend, store, counter, autosync, encoding, old_encoding,
                   op, result, cache_expired_at, ghost, lastSet, keyspace, db,
                   call, outcome, _last_updated, child_watch>>

KsStep(i) ==
    \/ KsConstruct(i)
    \/ \E k \in Keys, v \in {V(2)} : KsSet(i, k, v)
    \/ \E k \in Keys : KsDelete(i, k)
    \/ KsRead(i)
    \/ Return(i)

KsNext == \E i \in Inst : KsStep(i)

SpecKeyspace == KsInit /\ [][KsNext]_vars

(***************************************************************************)
(* C22.  Keyspace isolation: a call of one instance changes neither the    *)
(* records, nor the version, nor the mirror, nor last_synced of an         *)
(* instance on another keyspace.                                           *)
(***************************************************************************)
\* the step is a call of instance i
KsCall(i) == pc[i] \in {"new", "idle"} /\ pc'[i] # pc[i]

\* what instance j sees in the database d: its records and its version
KsView(j, d) ==
    <<IF Has(d, keyspace[j]) THEN d[keyspace[j]] ELSE String(0),
      IF Has(d, last_update_key(j)) THEN d[last_update_key(j)] ELSE String(0)>>

\* C22: no call on one keyspace changes what an instance on another one sees
C22_KeyspaceIsolation ==
    [][\A i \in Inst : \A j \in Inst \ {i} :
         KsCall(i) => /\ KsView(j, db') = KsView(j, db)
                      /\ dict'[j] = dict[j]
                      /\ last_synced'[j] = last_synced[j]
      ]_vars

(***************************************************************************)
(* One instance on a fresh keyspace that only sets and reads: the          *)
(* specification of the version numbering.  The counter is not lost and no *)
(* call fails.                                                             *)
(***************************************************************************)
SoleStep(i) ==
    \/ Construct(i)
    \/ RedisInitTouch(i)
    \/ SyncCheck(i)
    \/ SyncLoad(i)
    \/ CallSync(i)
    \/ Read(i)
    \/ \E k \in Keys, v \in InputVals : Mutate(i, "set", k, v)
    \/ RedisPersist(i)
    \/ ModelPersist(i)
    \/ ModelSave(i)
    \/ TouchIncr(i)
    \/ Return(i)

SoleNext == SoleStep(1)

SpecSole == Init /\ [][SoleNext]_vars

(***************************************************************************)
(* C23.  Version numbering: once the only instance on a fresh keyspace is  *)
(* constructed the version is 1, and each set that has returned has added  *)
(* exactly 1 to it: after n sets it is 1 + n.                              *)
(***************************************************************************)
\* C23: the version is 1 after construction and 1 + n after n sets
C23_VersionNumbering ==
    pc[1] = "idle" => /\ counter # Absent
                      /\ last_updated = 1 + writes

\* two sets have returned and the version is 3
C23_Witness ==
    /\ pc[1] = "idle"
    /\ writes = 2
    /\ last_updated = 3
    /\ Has(store, "k1")

(***************************************************************************)
(* Mappings with configured encoders.  Each instance is constructed with   *)
(* an encoding and, possibly, an old_encoding; the instances set values    *)
(* (plain ones, one that json cannot encode, one that no encoder can) and  *)
(* read them back.  The counter is not lost.                               *)
(***************************************************************************)
\* the (encoding, old_encoding) pairs an instance is constructed with
EncodingChoices ==
    { <<"pickle", "none">>, <<"json", "none">>, <<"json", "pickle">>,
      <<"noop", "none">> }
EncodedVals == {V(2), V(JSONUnencodable), V(Unencodable)}

EncInit ==
    /\ backend \in {"redis", "model"}
    /\ store = EmptyDict
    /\ counter = Absent
    /\ dict = [i \in Inst |-> EmptyDict]
    /\ last_synced = [i \in Inst |-> 0]
    /\ autosync = [i \in Inst |-> TRUE]
    /\ \E c \in [Inst -> EncodingChoices] :
          /\ encoding = [i \in Inst |-> c[i][1]]
          /\ old_encoding = [i \in Inst |-> c[i][2]]
    /\ pc = [i \in Inst |-> "new"]
    /\ op = [i \in Inst |-> NoOp]
    /\ result = [i \in Inst |-> None]
    /\ ret = [i \in Inst |-> NoRet]
    /\ cache_expired_at = [i \in Inst |-> Absent]
    /\ writes = 0
    /\ losses = 0
    /\ lastSet = [k \in Keys |-> NoSet]
    /\ keyspace = [i \in Inst |-> <<"ks">>]
    /\ db = EmptyDict
    /\ call = NoCall
    /\ outcome = NoRet
    /\ _last_updated = [i \in Inst |-> Absent]
    /\ child_watch = [i \in Inst |-> NoWatch]

EncStep(i) ==
    \/ Construct(i)
    \/ RedisInitTouch(i)
    \/ SyncCheck(i)
    \/ SyncLoad(i)
    \/ Read(i)
    \/ \E k \in Keys, v \in EncodedVals : Mutate(i, "set", k, v)
    \/ RedisPersist(i)
    \/ ModelPersist(i)
    \/ ModelSave(i)
    \/ TouchIncr(i)
    \/ Return(i)

EncNext == \E i \in Inst : EncStep(i)

SpecEncoding == EncInit /\ [][EncNext]_vars

(***************************************************************************)
(* C24.  Round trip through the mapping: when set(k, v) of an instance has *)
(* returned and nothing else ran meanwhile, the store holds encode(v)      *)
(* under k, the mirror of the instance holds decode(encode(v)) = v, and    *)
(* durables() gives v for k as well.                                       *)
(***************************************************************************)
\* C24: a value set is stored encoded and read back as itself
C24_RoundTrip ==
    \A a \in Inst :
        (Returned(a) /\ op[a].name = "set" /\ op[a].quiet)
        => LET k == op[a].key
               v == op[a].val
           IN /\ Has(store, k)
              /\ store[k] = Encode(encoding[a], v)
              /\ Decode(encoding[a], store[k]) = v
              /\ Has(dict[a], k) /\ dict[a][k] = v
              /\ ~DurablesRaises(a, store) /\ durables(a, store)[k] = v

(***************************************************************************)
(* C25.  Decode fallback: a record written under the old encoder loads     *)
(* into the mirror of an instance configured with the new encoder and the  *)
(* old one as old_encoding, as the value that was written; the reload of   *)
(* an instance configured with the new encoder alone raises DecodingError. *)
(***************************************************************************)
\* the record under k was written by the encoder enc and by no other
WrittenUnder(enc, k) ==
    /\ Has(store, k)
    /\ store[k].w = <<Tag(enc)>>
    /\ enc # "noop"

\* the step is a reload of instance i of a store holding a record written
\* under the encoder old, which is not the encoding of i
LoadsOld(i, old) ==
    /\ pc[i] = "load" /\ pc'[i] # "load"
    /\ encoding[i] \notin {"noop", old}
    /\ \E k \in Keys : WrittenUnder(old, k)

\* C25: old records decode through old_encoding and fail without it
C25_DecodeFallback ==
    [][\A i \in Inst : \A old \in {"pickle", "json"} :
         LoadsOld(i, old)
         => IF old_encoding[i] = old
            THEN /\ ret'[i].kind \notin {"DecodingError", "EncodingError"}
                 /\ \A k \in Keys :
                      WrittenUnder(old, k)
                      => dict'[i][k] = Decode(old, store[k])
            ELSE /\ old_encoding[i] = "none"
                    => /\ ret'[i].kind = "DecodingError"
                       /\ dict'[i] = dict[i]
      ]_vars

(***************************************************************************)
(* C26.  Encode fallback: the write of a set stores what the primary       *)
(* encoder makes of the value; when the primary raises EncodingError and   *)
(* an old encoder is configured it stores what the old encoder makes of    *)
(* it; when neither can encode the value the call raises EncodingError and *)
(* neither the records nor the counter change.                             *)
(***************************************************************************)
\* the step is the backend's persist of the set instance i is in
SetWrite(i) ==
    /\ pc[i] \in {"write", "save"} /\ op[i].name = "set"
    /\ pc'[i] # pc[i]
    /\ ret'[i].kind # "ConnectionError"

\* C26: a set stores the primary's encoding, else the old encoder's, else raises
C26_EncodeFallback ==
    [][\A i \in Inst :
         SetWrite(i)
         => IF _encode(i, op[i].val) = EncoderError
            THEN /\ ret'[i].kind = "EncodingError"
                 /\ store' = store /\ counter' = counter
            ELSE /\ ret'[i].kind # "EncodingError"
                 /\ store' # store => store'[op[i].key] = _encode(i, op[i].val)
      ]_vars

(***************************************************************************)
(* The encoders on their own: Encoder.encode and Encoder.decode applied to *)
(* an argument, outside any mapping.  `call' is the call made (class,      *)
(* method, argument and what the class's encoder / decoder raised on it),  *)
(* `outcome' is what the call returned or raised.                          *)
(***************************************************************************)
\* the classes of encoding.py: the base Encoder and its three subclasses
EncoderClasses == {"Encoder", "pickle", "json", "noop"}

\* the empty string: an encoded record cut down to nothing
Truncated == [b |-> 0, w |-> <<"">>]

\* the arguments: objects, what the encoders make of them, what the encoders
\* make of that, and the empty string
RawObjects == {V(1), V(2), V(JSONUnencodable), V(Unencodable)}
EncodedOnce ==
    {Encode(e, v) : e \in {"pickle", "json"}, v \in RawObjects} \ {EncoderError}
EncodedTwice == {Encode(e, s) : e \in {"pickle", "json"}, s \in EncodedOnce}
CodecInputs == RawObjects \cup EncodedOnce \cup EncodedTwice \cup {Truncated}

\* True iff data is a string (what an encoder returns), not an object
IsString(data) == data.w # <<>>

\* what cls.encoder(data) can raise ("none": it returns)
encoder_raises(cls, data) ==
    IF cls = "Encoder" THEN {"NotImplementedError"}
    ELSE IF Encode(cls, data) # EncoderError THEN {"none"}
    ELSE IF cls = "pickle" THEN {"TypeError", "PicklingError"}
    ELSE {"TypeError"}

\* what cls.decoder(data) can raise ("none": it returns): pickle.loads runs
\* out of input on the empty string, base64.decodestring rejects a text that
\* is not base64, pickle.loads rejects bytes that are not a pickle
decoder_raises(cls, data) ==
    IF cls = "Encoder" THEN {"NotImplementedError"}
    ELSE IF ~IsString(data) THEN {"TypeError"}
    ELSE IF Decode(cls, data) # EncoderError THEN {"none"}
    ELSE IF cls = "json" THEN {"ValueError"}
    ELSE IF data = Truncated THEN {"EOFError"}
    ELSE {"binascii.Error", "UnpicklingError"}

encoding_exceptions(cls) ==
    IF cls = "pickle" THEN {"TypeError", "PicklingError"}
    ELSE IF cls = "json" THEN {"TypeError", "ValueError"}
    ELSE {}

decoding_exceptions(cls) ==
    IF cls = "pickle" THEN {"TypeError", "UnpicklingError"}
    ELSE IF cls = "json" THEN {"TypeError", "ValueError"}
    ELSE {}

\* Encoder.encode: the encoder's result; EncodingError for what the encoder
\* raised if the class lists it, else what the encoder raised
Encoder_encode(cls, data, raised) ==
    IF cls = "noop" THEN Val(data)
    ELSE IF raised = "none" THEN Val(Encode(cls, data))
    ELSE IF raised \in encoding_exceptions(cls) THEN Exc("EncodingError")
    ELSE Exc(raised)

\* Encoder.decode, likewise with DecodingError
Encoder_decode(cls, data, raised) ==
    IF cls = "noop" THEN Val(data)
    ELSE IF raised = "none" THEN Val(Decode(cls, data))
    ELSE IF raised \in decoding_exceptions(cls) THEN Exc("DecodingError")
    ELSE Exc(raised)

CodecInit ==
    /\ backend = "redis"
    /\ store = EmptyDict
    /\ counter = Absent
    /\ dict = [i \in Inst |-> EmptyDict]
    /\ last_synced = [i \in Inst |-> 0]
    /\ autosync = [i \in Inst |-> TRUE]
    /\ encoding = [i \in Inst |-> "pickle"]
    /\ old_encoding = [i \in Inst |-> "none"]
    /\ pc = [i \in Inst |-> "new"]
    /\ op = [i \in Inst |-> NoOp]
    /\ result = [i \in Inst |-> None]
    /\ ret = [i \in Inst |-> NoRet]
    /\ cache_expired_at = [i \in Inst |-> Absent]
    /\ writes = 0
    /\ losses = 0
    /\ lastSet = [k \in Keys |-> NoSet]
    /\ keyspace = [i \in Inst |-> <<"ks">>]
    /\ db = EmptyDict
    /\ call = NoCall
    /\ outcome = NoRet
    /\ _last_updated = [i \in Inst |-> Absent]
    /\ child_watch = [i \in Inst |-> NoWatch]

\* everything but the call and its outcome
mappings ==
    <<backend, autosync, encoding, old_encoding, keyspace, db, _last_updated,
      child_watch, ghost, store, counter, dict, last_synced, pc, op, result, ret, cache_expired_at,
      lastSet>>

\* cls.encode(data)
CallEncode(cls, data) ==
    /\ \E raised \in (IF cls = "noop" THEN {"none"}
                      ELSE encoder_raises(cls, data)) :
          /\ call' = [cls |-> cls, method |-> "encode", data |-> data,
                      raises |-> raised]
          /\ outcome' = Encoder_encode(cls, data, raised)
    /\ UNCHANGED mappings

\* cls.decode(data)
CallDecode(cls, data) ==
    /\ \E raised \in (IF cls = "noop" THEN {"none"}
                      ELSE decoder_raises(cls, data)) :
          /\ call' = [cls |-> cls, method |-> "decode", data |-> data,
                      raises |-> raised]
          /\ outcome' = Encoder_decode(cls, data, raised)
    /\ UNCHANGED mappings

CodecNext ==
    \E cls \in EncoderClasses : \E data \in CodecInputs :
        \/ CallEncode(cls, data)
        \/ CallDecode(cls, data)

SpecCodec == CodecInit /\ [][CodecNext]_vars

(***************************************************************************)
(* C27.  Codec failures are normalized: whatever the encoder of a shipped  *)
(* encoding raises during encode surfaces as EncodingError, whatever its   *)
(* decoder raises during decode surfaces as DecodingError, and no other    *)
(* error kind escapes encode or decode.                                    *)
(***************************************************************************)
\* C27: a failed encode raises EncodingError, a failed decode DecodingError
C27_CodecErrorsNormalized ==
    (call.cls \in {"pickle", "json", "noop"} /\ call.raises # "none")
    => outcome.kind = (IF call.method = "encode" THEN "EncodingError"
                       ELSE "DecodingError")

(***************************************************************************)
(* update().  DurableDict defines no update: the attribute is looked up by *)
(* __getattr__, which syncs (under autosync) and hands out the method of   *)
(* the mirror, a plain dict; the caller then calls that method.            *)
(***************************************************************************)
\* what callers pass to update: nothing, or a mapping with one item
UpdateItems == {{}} \cup {{<<k, v>>} : k \in Keys, v \in InputVals}

\* dict.update(items) on the mapping d
dict_update(d, items) ==
    IF items = {} THEN d
    ELSE LET kv == CHOOSE x \in items : TRUE IN Put(d, kv[1], kv[2])

\* DurableDict.__getattr__('update'): the sync of a read
GetattrUpdate(i) ==
    /\ Running
    /\ pc[i] = "idle"
    /\ Enter(i, [NoOp EXCEPT !.name = "update"])
    /\ Goto(i, IF autosync[i] THEN "sync" ELSE "update")
    /\ UNCHANGED <<config, ghost, store, counter, dict, last_synced, result>>

\* the call of what __getattr__ returned: update(items) of the mirror
CallUpdate(i, items) ==
    /\ Running
    /\ pc[i] = "update"
    /\ dict' = [dict EXCEPT ![i] = dict_update(dict[i], items)]
    /\ pc' = [pc EXCEPT ![i] = "done"]
    /\ ret' = [ret EXCEPT ![i] = Ok]
    /\ UNCHANGED <<config, ghost, store, counter, last_synced, op, result,
                   cache_expired_at, lastSet>>

UpdateStep(i) ==
    \/ SoleStep(i)
    \/ GetattrUpdate(i)
    \/ \E items \in UpdateItems : CallUpdate(i, items)

UpdateNext == \E i \in Inst : UpdateStep(i)

SpecUpdate == Init /\ [][UpdateNext]_vars

(***************************************************************************)
(* C28.  Calling update() on an instance raises NotImplementedError, and   *)
(* the call changes neither the mirror, nor the stored records, nor the    *)
(* durable version.                                                        *)
(***************************************************************************)
\* C28: update() raises NotImplementedError and changes nothing
C28_UpdateNotImplemented ==
    [][\A i \in Inst :
         (pc[i] = "update" /\ pc'[i] # "update")
         => /\ ret'[i].kind = "NotImplementedError"
            /\ dict' = dict
            /\ store' = store
            /\ counter' = counter
      ]_vars

(***************************************************************************)
(* ZookeeperDict (modeldict/zookeeper.py) on PersistedDict                 *)
(* (modeldict/base.py).  `store' holds the nodes below the root node, by   *)
(* path relative to it; the version is the instance's own _last_updated,   *)
(* bumped by the instance's writes and by the callbacks of its watches:    *)
(* the ChildrenWatch of the root and the data watches persistents() sets   *)
(* on every child.  Callbacks run on the client's thread, some time after  *)
(* the change that triggers them.  Each call is one step.                  *)
(***************************************************************************)
ZkKeys == {"k1", "with/slash"}

\* the key split at posixpath.sep
Segments(key) == IF key = "with/slash" THEN <<"with", "slash">> ELSE <<key>>

\* the nodes between the root and the node of key
Ancestors(key) == IF key = "with/slash" THEN {"with"} ELSE {}

\* a validate_key that lets every key through
validate_key_lenient(key) == FALSE

\* validate_key: TRUE iff the wrapper raises ValueError, posixpath.sep
\* being in the key
validate_key(key) == Len(Segments(key)) > 1

\* zk.ensure_path, zk.get_children of the root, and what zk.delete and
\* zk.create raise ("none": they succeed)
zk_ensure_path(n, key) ==
    [x \in (DOMAIN n) \cup Ancestors(key) \cup {key} |->
        IF Has(n, x) THEN n[x] ELSE Truncated]
zk_get_children(n) == {x \in DOMAIN n : Len(Segments(x)) = 1}
zk_delete_raises(n, key) ==
    IF ~Has(n, key) THEN "NoNodeError"
    ELSE IF \E x \in DOMAIN n : key \in Ancestors(x) THEN "NotEmptyError"
    ELSE "none"
zk_create_raises(n, key) ==
    IF Ancestors(key) \subseteq DOMAIN n THEN "none" ELSE "NoNodeError"

\* the watches after the write that turned the nodes n into n2 and touched
\* the node of key: the ChildrenWatch of every instance is due when the
\* children of the root changed, a data watch on the node is due and gone
Notify(n, n2, key) ==
    [j \in Inst |->
        IF pc[j] \in {"new", "failed"} THEN child_watch[j]
        ELSE [due |-> child_watch[j].due
                      + (IF zk_get_children(n2) # zk_get_children(n)
                         THEN 1 ELSE 0)
                      + (IF key \in child_watch[j].data THEN 1 ELSE 0),
              data |-> child_watch[j].data \ {key}]]

\* ZookeeperDict.__increment_last_updated
increment_last_updated(lu) == (IF lu = Absent THEN 0 ELSE lu) + 1

\* ZookeeperDict.persistents on the nodes n, and whether it raises:
\* PersistedDict._decode lets the failure of pickle through
persistents(n) == [x \in zk_get_children(n) |-> Decode("pickle", n[x])]
persistents_raises_never(n) == FALSE
persistents_raises(n) ==
    \E x \in zk_get_children(n) : Decode("pickle", n[x]) = EncoderError

\* the rest of a call of instance i that has left the nodes n2, the watches
\* w2 and its version lu2: the sync if it syncs, then the return of r
ZkFinish(i, c, syncs, n2, lu2, w2, r) ==
    LET expired == /\ syncs
                   /\ last_synced[i] = 0 \/ lu2 > last_synced[i]
                   /\ lu2 > 0
    IN  /\ store' = n2
        /\ _last_updated' = [_last_updated EXCEPT ![i] = lu2]
        /\ IF expired /\ ~persistents_raises(n2)
           THEN /\ dict' = [dict EXCEPT ![i] = persistents(n2)]
                /\ last_synced' = [last_synced EXCEPT ![i] = lu2]
                /\ child_watch' =
                     [w2 EXCEPT ![i].data = @ \cup zk_get_children(n2)]
           ELSE /\ UNCHANGED <<dict, last_synced>>
                /\ child_watch' = w2
        /\ ret' = [ret EXCEPT ![i] =
                     IF expired /\ persistents_raises(n2)
                     THEN Exc("EOFError") ELSE r]
        /\ pc' = [pc EXCEPT ![i] = "done"]
        /\ op' = [op EXCEPT ![i] = c]

\* the call c of instance i raises before it has written anything
ZkRaise(i, c, kind) ==
    /\ ret' = [ret EXCEPT ![i] = Exc(kind)]
    /\ pc' = [pc EXCEPT ![i] = "done"]
    /\ op' = [op EXCEPT ![i] = c]
    /\ UNCHANGED <<store, _last_updated, child_watch, dict, last_synced>>

\* what a call leaves alone
zk_rest ==
    <<backend, autosync, encoding, old_encoding, keyspace, db, call, outcome,
      counter, result, cache_expired_at, losses, lastSet>>

ZkInit ==
    /\ backend = "zookeeper"
    /\ store = EmptyDict
    /\ counter = Absent
    /\ dict = [i \in Inst |-> EmptyDict]
    /\ last_synced = [i \in Inst |-> 0]
    /\ autosync \in AutosyncChoices
    /\ encoding = [i \in Inst |-> "pickle"]
    /\ old_encoding = [i \in Inst |-> "none"]
    /\ pc = [i \in Inst |-> "new"]
    /\ op = [i \in Inst |-> NoOp]
    /\ result = [i \in Inst |-> None]
    /\ ret = [i \in Inst |-> NoRet]
    /\ cache_expired_at = [i \in Inst |-> Absent]
    /\ writes = 0
    /\ losses = 0
    /\ lastSet = [k \in Keys |-> NoSet]
    /\ keyspace = [i \in Inst |-> <<"ks">>]
    /\ db = EmptyDict
    /\ call = NoCall
    /\ outcome = NoRet
    /\ _last_updated = [i \in Inst |-> Absent]
    /\ child_watch = [i \in Inst |-> NoWatch]

\* ZookeeperDict.__init__: the ChildrenWatch calls back at once, then the
\* sync of PersistedDict.__init__
ZkConstruct(i) ==
    /\ Running
    /\ pc[i] = "new"
    /\ ZkFinish(i, [NoOp EXCEPT !.name = "init"], TRUE, store,
                increment_last_updated(Absent), child_watch, Ok)
    /\ UNCHANGED <<zk_rest, writes>>

\* PersistedDict.__setitem__: ZookeeperDict.persist, then sync
ZkSetitem(i, k, v) ==
    LET c == [NoOp EXCEPT !.name = "set", !.key = k, !.val = v]
        n2 == Put(zk_ensure_path(store, k), k, Encode("pickle", v))
    IN  /\ Running
        /\ pc[i] = "idle"
        /\ writes < MaxWrites
        /\ writes' = writes + 1
        /\ IF validate_key(k) THEN ZkRaise(i, c, "ValueError")
           ELSE ZkFinish(i, c, TRUE, n2,
                         increment_last_updated(_last_updated[i]),
                         Notify(store, n2, k), Ok)
        /\ UNCHANGED zk_rest

\* PersistedDict.__delitem__: ZookeeperDict.depersist, then sync
ZkDelitem(i, k) ==
    LET c == [NoOp EXCEPT !.name = "del", !.key = k]
        n2 == Del(store, k)
    IN  /\ Running
        /\ pc[i] = "idle"
        /\ writes < MaxWrites
        /\ writes' = writes + 1
        /\ IF validate_key(k) THEN ZkRaise(i, c, "ValueError")
           ELSE IF zk_delete_raises(store, k) # "none"
           THEN ZkRaise(i, c, zk_delete_raises(store, k))
           ELSE ZkFinish(i, c, TRUE, n2,
                         increment_last_updated(_last_updated[i]),
                         Notify(store, n2, k), Ok)
        /\ UNCHANGED zk_rest

\* PersistedDict.pop: ZookeeperDict._pop, then sync
ZkPop(i, k, default) ==
    LET c == [NoOp EXCEPT !.name = "pop", !.key = k, !.val = default]
        n2 == Del(store, k)
    IN  /\ Running
        /\ pc[i] = "idle"
        /\ writes < MaxWrites
        /\ writes' = writes + 1
        /\ IF validate_key(k) THEN ZkRaise(i, c, "ValueError")
           ELSE IF ~Has(store, k)
           THEN IF Truthy(default)
                THEN ZkFinish(i, c, TRUE, store, _last_updated[i],
                              child_watch, Val(default))
                ELSE ZkRaise(i, c, "KeyError")
           ELSE IF Decode("pickle", store[k]) = EncoderError
           THEN ZkRaise(i, c, "EOFError")
           ELSE IF zk_delete_raises(store, k) # "none"
           THEN ZkRaise(i, c, zk_delete_raises(store, k))
           ELSE ZkFinish(i, c, TRUE, n2,
                         increment_last_updated(_last_updated[i]),
                         Notify(store, n2, k),
                         Val(Decode("pickle", store[k])))
        /\ UNCHANGED zk_rest

\* PersistedDict.setdefault: ZookeeperDict._setdefault, then sync
ZkSetdefault(i, k, default) ==
    LET c == [NoOp EXCEPT !.name = "setdefault", !.key = k, !.val = default]
        n2 == Put(store, k, Encode("pickle", default))
    IN  /\ Running
        /\ pc[i] = "idle"
        /\ writes < MaxWrites
        /\ writes' = writes + 1
        /\ IF validate_key(k) THEN ZkRaise(i, c, "ValueError")
           ELSE IF Has(store, k)
           THEN IF Decode("pickle", store[k]) = EncoderError
                THEN ZkRaise(i, c, "EOFError")
                ELSE ZkFinish(i, c, TRUE, store, _last_updated[i],
                              child_watch, Val(Decode("pickle", store[k])))
           ELSE IF zk_create_raises(store, k) # "none"
           THEN ZkRaise(i, c, zk_create_raises(store, k))
           ELSE ZkFinish(i, c, TRUE, n2,
                         increment_last_updated(_last_updated[i]),
                         Notify(store, n2, k), Val(default))
        /\ UNCHANGED zk_rest

\* a read (__getitem__, __len__, ...): the sync under autosync
ZkRead(i) ==
    /\ Running
    /\ pc[i] = "idle"
    /\ ZkFinish(i, [NoOp EXCEPT !.name = "read"], autosync[i], store,
                _last_updated[i], child_watch, Ok)
    /\ UNCHANGED <<zk_rest, writes>>

\* PersistedDict.sync
ZkSync(i) ==
    /\ Running
    /\ pc[i] = "idle"
    /\ ZkFinish(i, [NoOp EXCEPT !.name = "sync"], TRUE, store,
                _last_updated[i], child_watch, Ok)
    /\ UNCHANGED <<zk_rest, writes>>

\* a watch of instance i calls back: __increment_last_updated
ZkWatchFired(i) ==
    /\ child_watch[i].due > 0
    /\ child_watch' = [child_watch EXCEPT ![i].due = @ - 1]
    /\ _last_updated' =
         [_last_updated EXCEPT ![i] = increment_last_updated(@)]
    /\ UNCHANGED <<zk_rest, writes, store, dict, last_synced, pc, op, ret>>

ZkStep(i) ==
    \/ ZkConstruct(i)
    \/ \E k \in ZkKeys, v \in InputVals : ZkSetitem(i, k, v)
    \/ \E k \in ZkKeys : ZkDelitem(i, k)
    \/ \E k \in ZkKeys, v \in Defaults : ZkPop(i, k, v)
    \/ \E k \in ZkKeys, v \in SetDefaults : ZkSetdefault(i, k, v)
    \/ ZkRead(i)
    \/ ZkSync(i)
    \/ ZkWatchFired(i)
    \/ Return(i)

ZkNext == \E i \in Inst : ZkStep(i)

SpecZookeeper == ZkInit /\ [][ZkNext]_vars

(***************************************************************************)
(* C29.  ZookeeperDict rejects keys containing '/': set, delete, pop and   *)
(* setdefault with such a key raise ValueError before any Zookeeper call,  *)
(* leaving the nodes, the watches, the instance's version and the mirror   *)
(* unchanged.                                                              *)
(***************************************************************************)
\* the step is a whole mutating call of instance i with a '/' in its key
SlashCall(i) ==
    /\ pc[i] = "idle" /\ pc'[i] = "done"
    /\ op'[i].name \in Mutators
    /\ Len(Segments(op'[i].key)) > 1

\* C29: a mutating call with a '/' in the key raises ValueError, changes nothing
C29_SlashKeysRejected ==
    [][\A i \in Inst :
         SlashCall(i)
         => /\ ret'[i].kind = "ValueError"
            /\ store' = store
            /\ child_watch' = child_watch
            /\ _last_updated' = _last_updated
            /\ dict' = dict
            /\ last_synced' = last_synced
      ]_vars

\* a pop of 'with/slash' has raised ValueError while a record is stored and
\* another instance has a callback due
C29_Witness ==
    \E i \in Inst :
        /\ pc[i] = "done"
        /\ op[i].name = "pop" /\ op[i].key = "with/slash"
        /\ ret[i].kind = "ValueError"
        /\ store # EmptyDict
        /\ \E j \in Others(i) : child_watch[j].due > 0

(***************************************************************************)
(* Unsynchronized writers: every instance constructs itself, sets and      *)
(* reads as it pleases, in any interleaving with the others; the counter   *)
(* is not lost.                                                            *)
(***************************************************************************)
WritersNext == \E i \in Inst : SoleStep(i)

SpecWriters == Init /\ [][WritersNext]_vars

\* the bumps the constructors have made so far: ModelDict adds the counter
\* once, every RedisDict increments it at the end of its constructor
InitBumps ==
    IF backend = "model"
    THEN IF \E i \in Inst : Alive(i) THEN 1 ELSE 0
    ELSE Cardinality({i \in Inst :
            /\ Alive(i)
            /\ ~(op[i].name = "init"
                 /\ pc[i] \in {"sync", "load", "init_touch"})})

\* the sets whose write has been made: those called, less those still
\* ahead of their bump
SetBumps ==
    writes - Cardinality({i \in Inst :
                 op[i].name = "set" /\ pc[i] \in {"write", "save", "touch"}})

(***************************************************************************)
(* C30.  Concurrent version bumps are not lost: with the counter present,  *)
(* once N writes by unsynchronized instances have been made, in any        *)
(* interleaving, the durable version has increased by exactly N.           *)
(***************************************************************************)
\* C30: the version is what the constructors left plus one per write made
C30_BumpsNotLost ==
    counter # Absent => last_updated = InitBumps + SetBumps

\* both instances are in a set at once and both have made their write
C30_Witness ==
    /\ \A i \in Inst : op[i].name = "set" /\ pc[i] \in {"sync", "load"}
    /\ counter # Absent
    /\ SetBumps = 2

(***************************************************************************)
(* ZookeeperDict with its callbacks delivered: a callback that is due is   *)
(* eventually run by the client's thread, and a call that has come to its  *)
(* end returns.  Nothing obliges an instance to make a call.               *)
(***************************************************************************)
SpecZookeeperFair ==
    /\ SpecZookeeper
    /\ \A i \in Inst : WF_vars(ZkWatchFired(i)) /\ WF_vars(Return(i))

\* the contents the nodes below the root can have
ZkStores ==
    {EmptyDict} \cup {Put(EmptyDict, "k1", Encode("pickle", v)) :
                        v \in InputVals \cup SetDefaults}

\* the values _last_updated can take
ZkVersions == 1..(2 * MaxWrites + 1)

(***************************************************************************)
(* C31.  last_updated() of a ZookeeperDict is an ever-increasing integer:  *)
(* it never decreases, and after every create, update or delete of a key   *)
(* under the path, by this instance or by another, it eventually becomes   *)
(* greater than it was before that change.                                 *)
(***************************************************************************)
\* C31 (first half): last_updated() of an instance never decreases
C31_NeverDecreases ==
    [][\A i \in Inst :
         (Alive(i) /\ _last_updated[i] # Absent)
         => _last_updated'[i] >= _last_updated[i]]_vars

\* C31: after every change of the nodes last_updated() eventually exceeds
\* what it was before the change
C31_EverIncreasing ==
    \A j \in Inst : \A n \in ZkVersions : \A s \in ZkStores :
        []((pc[j] = "idle" /\ _last_updated[j] = n /\ store = s)
           => [](store # s => <>(_last_updated[j] > n)))

(***************************************************************************)
(* PersistedDict.get on a ZookeeperDict: the call goes through             *)
(* __getitem__, which syncs under autosync and looks the key up in the     *)
(* mirror.  Callers also store a falsy value.                              *)
(***************************************************************************)
\* PersistedDict.get on the mirror d: self.__getitem__(key) or default
PersistedDict_get(d, k, default) ==
    IF ~Has(d, k) THEN Exc("KeyError")
    ELSE IF Truthy(d[k]) THEN Val(d[k])
    ELSE Val(default)

\* the mirror of instance i after a sync (if it syncs) on the nodes n
MirrorAfterSync(i, syncs, n) ==
    IF /\ syncs
       /\ last_synced[i] = 0 \/ _last_updated[i] > last_synced[i]
       /\ _last_updated[i] > 0
       /\ ~persistents_raises(n)
    THEN persistents(n) ELSE dict[i]

\* PersistedDict.get(k, default)
ZkGet(i, k, default) ==
    /\ Running
    /\ pc[i] = "idle"
    /\ ZkFinish(i, [NoOp EXCEPT !.name = "get", !.key = k, !.val = default],
                autosync[i], store, _last_updated[i], child_watch,
                PersistedDict_get(MirrorAfterSync(i, autosync[i], store),
                                  k, default))
    /\ UNCHANGED <<zk_rest, writes>>

PersistedStep(i) ==
    \/ ZkStep(i)
    \/ ZkSetitem(i, "k1", V(1))
    \/ \E k \in ZkKeys, v \in Defaults : ZkGet(i, k, v)

PersistedNext == \E i \in Inst : PersistedStep(i)

SpecPersisted == ZkInit /\ [][PersistedNext]_vars

(***************************************************************************)
(* C32.  get(k, default) of a PersistedDict-based mapping returns the      *)
(* stored value when k is present, whatever the value, and returns default *)
(* (None when omitted) without raising when k is absent.                   *)
(***************************************************************************)
\* the step is a whole get of instance i
GetCall(i) ==
    /\ pc[i] = "idle" /\ pc'[i] = "done"
    /\ op'[i].name = "get"

\* C32: get returns the value the mirror holds for the key, else the default
C32_PersistedGet ==
    [][\A i \in Inst :
         GetCall(i)
         => ret'[i] = IF Has(dict'[i], op'[i].key)
                      THEN Val(dict'[i][op'[i].key])
                      ELSE Val(op'[i].val)
      ]_vars

(***************************************************************************)
(* C33.  Mirror freshness: as long as the version counter is never lost,   *)
(* in every state where an instance's last_synced equals the current       *)
(* durable version and no write is in progress, that instance's mirror     *)
(* equals the decoded contents of the durable store.                       *)
(***************************************************************************)
\* some instance is between the entry of a mutating call and its last write
WriteInProgress ==
    \E j \in Inst :
        /\ op[j].name \in Mutators
        /\ pc[j] \in {"write", "save", "delete", "touch", "touch_add",
                      "touch_incr"}

\* the stored records, each decoded by the encoder of instance i
DecodedStore(i) == [k \in DOMAIN store |-> Decode(encoding[i], store[k])]

\* C33: a mirror synced at the current version is the decoded store
C33_MirrorFreshness ==
    (losses = 0 /\ ~WriteInProgress)
    => \A i \in Inst :
          (Alive(i) /\ last_synced[i] = last_updated)
          => dict[i] = DecodedStore(i)

(***************************************************************************)
(* C34.  A pop that removes nothing does not invalidate caches: the        *)
(* backend's _pop of a key absent from the store leaves the durable        *)
(* version unchanged, whether the call goes on to return the default or    *)
(* raises KeyError.                                                        *)
(***************************************************************************)
\* C34: pop of an absent key leaves the version as it is
C34_PopAbsentVersion ==
    [][\A i \in Inst :
         (PopWrite(i) /\ ~Has(store, op[i].key))
         => counter' = counter
      ]_vars

(***************************************************************************)
(* C35.  A supplied default is honoured whatever its value: pop(k, d) on   *)
(* an absent key hands back d and does not raise, also when d is falsy.    *)
(***************************************************************************)
\* C35: pop of an absent key with a default d goes on to return d
C35_PopDefaultHonoured ==
    [][\A i \in Inst :
         (PopWrite(i) /\ ~Has(store, op[i].key) /\ op[i].val # None)
         => /\ ret'[i].kind \notin {"KeyError", "EncodingError"}
            /\ result'[i] = op[i].val
      ]_vars

(***************************************************************************)
(* Racing calls: two instances on a keyspace that is fresh or already      *)
(* holds the record an earlier instance has set, each popping or calling   *)
(* setdefault with a default of its choice, in any interleaving.           *)
(***************************************************************************)
\* the record an earlier instance has stored for k1
EarlierRecord == Put(EmptyDict, "k1", Encode("pickle", V(2)))

\* what the racing callers pass as the default of setdefault
RaceDefaults == {V(3), V(4)}

RaceInit ==
    /\ backend \in {"redis", "model"}
    /\ store \in {EmptyDict, EarlierRecord}
    /\ counter = IF store = EmptyDict THEN Absent ELSE 2
    /\ dict = [i \in Inst |-> EmptyDict]
    /\ last_synced = [i \in Inst |-> 0]
    /\ autosync \in AutosyncChoices
    /\ encoding = [i \in Inst |-> "pickle"]
    /\ old_encoding = [i \in Inst |-> "none"]
    /\ pc = [i \in Inst |-> "new"]
    /\ op = [i \in Inst |-> NoOp]
    /\ result = [i \in Inst |-> None]
    /\ ret = [i \in Inst |-> NoRet]
    /\ cache_expired_at = [i \in Inst |-> Absent]
    /\ writes = 0
    /\ losses = 0
    /\ lastSet = [k \in Keys |-> NoSet]
    /\ keyspace = [i \in Inst |-> <<"ks">>]
    /\ db = EmptyDict
    /\ call = NoCall
    /\ outcome = NoRet
    /\ _last_updated = [i \in Inst |-> Absent]
    /\ child_watch = [i \in Inst |-> NoWatch]

RaceStep(i) ==
    \/ Construct(i)
    \/ RedisInitTouch(i)
    \/ SyncCheck(i)
    \/ SyncLoad(i)
    \/ \E k \in Keys, v \in Defaults : Mutate(i, "pop", k, v)
    \/ \E k \in Keys, v \in RaceDefaults : Mutate(i, "setdefault", k, v)
    \/ Redis_pop(i)
    \/ Redis_setdefault(i)
    \/ Model_pop(i)
    \/ ModelDelete(i)
    \/ Model_setdefault(i)
    \/ TouchIncr(i)
    \/ Return(i)

RaceNext == \E i \in Inst : RaceStep(i)

SpecRace == RaceInit /\ [][RaceNext]_vars

(***************************************************************************)
(* C36.  RedisDict pop is atomic across instances: when two instances are  *)
(* in pop(k) at once and the key is present, the first _pop to run         *)
(* receives the stored value and removes the key, and the other then finds *)
(* the key absent and goes on to its default or to KeyError: the key is    *)
(* removed exactly once.                                                   *)
(***************************************************************************)
\* instance i and another instance are both about to run _pop on one key
ConcurrentPops(i) ==
    /\ pc[i] = "write" /\ op[i].name = "pop"
    /\ \E j \in Others(i) :
          pc[j] = "write" /\ op[j].name = "pop" /\ op[j].key = op[i].key

\* C36: of two concurrent pops the first receives the stored value, the other not
C36_RedisPopAtomic ==
    [][\A i \in Inst :
         (backend = "redis" /\ ConcurrentPops(i) /\ PopWrite(i))
         => IF Has(store, op[i].key)
            THEN /\ result'[i] = Decode(encoding[i], store[op[i].key])
                 /\ pc'[i] = "sync"
                 /\ store' = Del(store, op[i].key)
            ELSE /\ store' = store
                 /\ \/ ret'[i] = Exc("KeyError")
                    \/ pc'[i] = "sync" /\ result'[i] = op[i].val
      ]_vars

(***************************************************************************)
(* C37.  ModelDict pop under concurrency: when two instances are in pop(k) *)
(* at once on a key that is present, at most one of them receives the      *)
(* stored value, and the version is bumped once for the single removal.    *)
(***************************************************************************)
\* the _pop of instance i has read the record and will return its value
HoldsPopped(i) ==
    /\ op[i].name = "pop"
    /\ pc[i] \in {"delete", "touch"}

\* C37: two pops in progress never both hold the value of the record
C37_ModelPopOnce ==
    backend = "model" => ~(\A i \in Inst : HoldsPopped(i))

(***************************************************************************)
(* C38.  Concurrent setdefault agrees on one value: when two instances     *)
(* call setdefault(k, d1) and setdefault(k, d2) at once on an absent key,  *)
(* exactly one default is stored, both calls return that stored value, and *)
(* both mirrors hold it when the calls return.                             *)
(***************************************************************************)
\* both instances are in their first call, a setdefault on the key k, which
\* was absent: the record of k is one they have made
RacingSetdefaults(k) ==
    /\ writes = 2
    /\ \A j \in Inst : op[j].name = "setdefault" /\ op[j].key = k
    /\ Has(store, k) /\ store # EarlierRecord

\* C38: a setdefault that raced another returns the one stored value, and
\* its mirror holds it
C38_SetdefaultAgrees ==
    \A i \in Inst, k \in Keys :
        (RacingSetdefaults(k) /\ pc[i] = "done")
        => /\ store[k] \in {Encode(encoding[i], d) : d \in RaceDefaults}
           /\ ret[i] = Val(Decode(encoding[i], store[k]))
           /\ Has(dict[i], k)
           /\ dict[i][k] = Decode(encoding[i], store[k])

(***************************************************************************)
(* ZookeeperDict.persist step by step: __set_or_create first makes the     *)
(* node with zk.ensure_path, which leaves it with empty content, and then  *)
(* gives it its value with zk.set.  The calls of other instances run in    *)
(* between.                                                                *)
(***************************************************************************)
\* __setitem__ up to zk.ensure_path
ZkEnsurePath(i, k, v) ==
    LET c == [NoOp EXCEPT !.name = "set", !.key = k, !.val = v]
        n2 == zk_ensure_path(store, k)
    IN  /\ Running
        /\ pc[i] = "idle"
        /\ writes < MaxWrites
        /\ writes' = writes + 1
        /\ IF validate_key(k)
           THEN ZkRaise(i, c, "ValueError")
           ELSE /\ store' = n2
                /\ child_watch' = IF Has(store, k) THEN child_watch
                                  ELSE Notify(store, n2, k)
                /\ pc' = [pc EXCEPT ![i] = "zk_set"]
                /\ op' = [op EXCEPT ![i] = c]
                /\ UNCHANGED <<_last_updated, dict, last_synced, ret>>
        /\ UNCHANGED zk_rest

\* the rest of __setitem__: zk.set, __increment_last_updated and the sync
ZkSetData(i) ==
    LET k == op[i].key
        n2 == Put(store, k, Encode("pickle", op[i].val))
    IN  /\ Running
        /\ pc[i] = "zk_set"
        /\ IF ~Has(store, k)
           THEN ZkRaise(i, op[i], "NoNodeError")
           ELSE ZkFinish(i, op[i], TRUE, n2,
                         increment_last_updated(_last_updated[i]),
                         Notify(store, n2, k), Ok)
        /\ UNCHANGED <<zk_rest, writes>>

ZkPersistStep(i) ==
    \/ ZkConstruct(i)
    \/ \E k \in ZkKeys, v \in InputVals : ZkEnsurePath(i, k, v)
    \/ ZkSetData(i)
    \/ \E k \in ZkKeys : ZkDelitem(i, k)
    \/ \E k \in ZkKeys, v \in SetDefaults : ZkSetdefault(i, k, v)
    \/ ZkRead(i)
    \/ ZkSync(i)
    \/ ZkWatchFired(i)
    \/ Return(i)

ZkPersistNext == \E i \in Inst : ZkPersistStep(i)

SpecZkPersist == ZkInit /\ [][ZkPersistNext]_vars

(***************************************************************************)
(* C39.  No phantom values in ZookeeperDict: however one instance's set of *)
(* a new key interleaves with the reloads of another, no mirror ever holds *)
(* for a key a value that no set or setdefault has written; in particular  *)
(* it never holds the empty content of a node that has been created and    *)
(* not yet given its value.                                                *)
(***************************************************************************)
\* C39: every value in a mirror is one a set or a setdefault was given
C39_NoPhantomValues ==
    \A j \in Inst : \A k \in DOMAIN dict[j] :
        dict[j][k] \in InputVals \cup SetDefaults

\* instance i has made the node of a new key and not yet set its value, and
\* the reload of another instance has met the empty node
C39_Witness ==
    \E i \in Inst : \E j \in Others(i) :
        /\ pc[i] = "zk_set"
        /\ Has(store, op[i].key) /\ store[op[i].key] = Truncated
        /\ pc[j] = "done" /\ op[j].name \in {"read", "sync"}
        /\ ret[j].kind = "EOFError"

(***************************************************************************)
(* C40.  Constructing a mapping instance on a keyspace that other          *)
(* instances already use writes nothing observable: no step of a           *)
(* constructor, taken while an instance constructed earlier exists,        *)
(* changes the stored records or the durable version.                      *)
(***************************************************************************)
\* instance i takes a step of its constructor
ConstructorStep(i) ==
    /\ \/ pc[i] = "new"
       \/ op[i].name = "init" /\ pc[i] \notin {"idle", "done"}
    /\ pc'[i] # pc[i]

\* an instance other than i has been constructed
InUse(i) == \E j \in Inst \ {i} : pc[j] # "new"

C40_ConstructionWritesNothing ==
    [][\A i \in Inst :
          ConstructorStep(i) /\ InUse(i)
          => store' = store /\ counter' = counter]_vars

====
